---- MODULE Spec2Model ----
(***************************************************************************)
(* Strategy simulation engine of the betting analysis system               *)
(* (src/betting_backend/backtesting/strategy_simulator.py).                *)
(*                                                                         *)
(* One StrategySimulator object is modelled: its historical_data and       *)
(* actual_outcomes are fixed by the constructor, and every simulate_*      *)
(* call runs the pipeline filter -> generate -> evaluate -> performance.   *)
(* Everything but those two attributes is local to a call; a second call   *)
(* made from another thread keeps its locals in suspended while the first  *)
(* takes its steps (threads are interleaved run by run).                   *)
(* A PerformanceAnalyzer (performance_analyzer.py) built over the bets and *)
(* the result of a finished call answers the breakdown queries; round(x,   *)
(* 1) is modelled by Round1.                                               *)
(*                                                                         *)
(* Numbers: Python floats are modelled as exact rationals <<n, d>> in      *)
(* lowest terms with d > 0, so that two equal quantities are equal values. *)
(* round(x, 2) is modelled by Round2 (nearest hundredth, ties to even).    *)
(*                                                                         *)
(* Abstractions: game_date is an integer day (the string branch of         *)
(* _group_by_date and strftime are not modelled); prediction records       *)
(* always carry every field, so the defaults of p.get are never taken; an  *)
(* absent prop_types (None) is the empty sequence; of the Sharpe ratio     *)
(* only the sign is kept.  An exception that leaves a method is the value  *)
(* the method yields (ZeroDivisionError).                                  *)
(***************************************************************************)
EXTENDS Integers, Sequences, FiniteSets, TLC

VARIABLES
    historical_data,       \* self.historical_data: sequence of prediction records
    actual_outcomes,       \* self.actual_outcomes: key -> [value |-> n], partial
    pc,                    \* position of the running simulate_* call
    call,                  \* arguments of the running simulate_* call
    filtered_predictions,  \* local of simulate_*: output of the filter stage
    bets,                  \* local of _generate_bets / _evaluate_bets
    current_bankroll,      \* local of _generate_bets
    run,                   \* <<date index, entry size index>> of the next run
    result,                \* the BettingResult returned by the call
    analysis,              \* what the last PerformanceAnalyzer method returned
    suspended              \* the frame of a second call on the same simulator
                           \* while that call is not the one taking steps

vars == <<historical_data, actual_outcomes, pc, call, filtered_predictions,
          bets, current_bankroll, run, result, analysis, suspended>>

-----------------------------------------------------------------------------
(* Exact rational arithmetic standing for float arithmetic.                *)

Abs(x) == IF x < 0 THEN -x ELSE x

RECURSIVE GCD(_, _)
GCD(a, b) == IF b = 0 THEN a ELSE GCD(b, a % b)

Rat(n, d) ==
    LET s == IF d < 0 THEN -1 ELSE 1
        g == GCD(Abs(n), Abs(d))
    IN  <<(s * n) \div g, (s * d) \div g>>

RInt(n) == <<n, 1>>
RZero == <<0, 1>>
\* Common factors are taken out before multiplying, to keep the intermediate
\* integers small
RAdd(a, b) ==
    LET g == GCD(a[2], b[2])
    IN  Rat(a[1] * (b[2] \div g) + b[1] * (a[2] \div g), (a[2] \div g) * b[2])
RNeg(a) == <<-a[1], a[2]>>
RSub(a, b) == RAdd(a, RNeg(b))
RMul(a, b) ==
    LET g == GCD(Abs(a[1]), b[2])
        h == GCD(Abs(b[1]), a[2])
    IN  IF a[1] = 0 \/ b[1] = 0 THEN RZero
        ELSE <<(a[1] \div g) * (b[1] \div h), (a[2] \div h) * (b[2] \div g)>>
RDiv(a, b) == RMul(a, IF b[1] < 0 THEN <<-b[2], -b[1]>> ELSE <<b[2], b[1]>>)
RLt(a, b) ==
    LET g == GCD(a[2], b[2])
    IN  a[1] * (b[2] \div g) < b[1] * (a[2] \div g)
RLe(a, b) ==
    LET g == GCD(a[2], b[2])
    IN  a[1] * (b[2] \div g) <= b[1] * (a[2] \div g)
RGt(a, b) == RLt(b, a)
RGe(a, b) == RLe(b, a)
RMax(a, b) == IF RLt(a, b) THEN b ELSE a
RAbs(a) == <<Abs(a[1]), a[2]>>

RECURSIVE RSum(_)
RSum(s) == IF s = <<>> THEN RZero ELSE RAdd(Head(s), RSum(Tail(s)))

\* np.mean of a non-empty sequence of rationals
RMean(s) == RDiv(RSum(s), RInt(Len(s)))

\* round(x, 2): the nearest multiple of 1/100, ties to the even hundredth
Round2(a) ==
    LET n == a[1] * 100
        q == n \div a[2]
        r == n % a[2]
        up == \/ 2 * r > a[2]
              \/ (2 * r = a[2] /\ q % 2 = 1)
    IN  Rat(IF up THEN q + 1 ELSE q, 100)

-----------------------------------------------------------------------------
(* Sequence helpers.                                                       *)

Range(s) == {s[i] : i \in 1..Len(s)}

\* The sequences of length at most n over S with no element repeated
RECURSIVE DistinctSeqs(_, _)
DistinctSeqs(S, n) ==
    IF n = 0 THEN {<<>>}
    ELSE LET shorter == DistinctSeqs(S, n - 1)
         IN  shorter \cup
             UNION {{Append(q, x) : x \in S \ Range(q)} : q \in shorter}

\* A set of integers as the ascending sequence of its elements
RECURSIVE SortedSeqOf(_)
SortedSeqOf(S) ==
    IF S = {} THEN <<>>
    ELSE LET m == CHOOSE x \in S : \A y \in S : x <= y
         IN  <<m>> \o SortedSeqOf(S \ {m})

-----------------------------------------------------------------------------
(* Values of the program.                                                  *)

\* Python's None where a string is expected (sport: Optional[str])
None == "None"

\* `if sport:` -- None and the empty string are falsy
Truthy(s) == s # None /\ s # ""

\* A prediction row as fetch_historical_predictions returns it
Pred(player_id, game_id, prop_type, projected_value, confidence, expected_value, sport, game_date) ==
    [player_id |-> player_id, game_id |-> game_id, prop_type |-> prop_type,
     projected_value |-> projected_value, confidence |-> confidence,
     expected_value |-> expected_value, sport |-> sport,
     game_date |-> game_date]

\* The key of a prop in the outcome lookup
OutcomeKey(prop) == <<prop.player_id, prop.game_id, prop.prop_type>>

\* ENTRY_PAYOUTS.get(entry_size, 1.0)
ENTRY_PAYOUTS == (2 :> RInt(3)) @@ (3 :> RInt(6)) @@ (4 :> RInt(10)) @@ (5 :> RInt(20))

PayoutMultiplier(entry_size) ==
    IF entry_size \in DOMAIN ENTRY_PAYOUTS THEN ENTRY_PAYOUTS[entry_size]
    ELSE RInt(1)

-----------------------------------------------------------------------------
(* Filter stage.                                                           *)

\* C8 mutant: the sport restriction is not applied
FilterSportIgnored(preds, sport) == preds

\* [p for p in filtered if p.get('sport') == sport], applied `if sport:`
FilterSport(preds, sport) ==
    IF Truthy(sport) THEN SelectSeq(preds, LAMBDA p : p.sport = sport)
    ELSE preds

filter_by_confidence(threshold, sport) ==
    FilterSport(SelectSeq(historical_data, LAMBDA p : p.confidence >= threshold), sport)

filter_by_ev(threshold, sport) ==
    FilterSport(SelectSeq(historical_data, LAMBDA p : p.expected_value >= threshold), sport)

filter_by_props(prop_types, confidence_threshold, sport) ==
    FilterSport(SelectSeq(historical_data,
                          LAMBDA p : /\ p.prop_type \in Range(prop_types)
                                     /\ p.confidence >= confidence_threshold),
                sport)

\* The filter chain at the head of simulate_composite
filter_composite(confidence_threshold, ev_threshold, prop_types, sport) ==
    LET f1 == FilterSport(historical_data, sport)
        f2 == IF confidence_threshold > 0
              THEN SelectSeq(f1, LAMBDA p : p.confidence >= confidence_threshold)
              ELSE f1
        f3 == IF ev_threshold > 0
              THEN SelectSeq(f2, LAMBDA p : p.expected_value >= ev_threshold)
              ELSE f2
    IN  IF prop_types # <<>>
        THEN SelectSeq(f3, LAMBDA p : p.prop_type \in Range(prop_types))
        ELSE f3

-----------------------------------------------------------------------------
(* Bet generator.                                                          *)

\* dict(sorted(grouped.items())): the date groups in ascending date order,
\* each holding its predictions in their order of appearance
\* C15 mutant: the date groups in descending date order
group_by_date_descending(predictions) ==
    LET dates == SortedSeqOf({p.game_date : p \in Range(predictions)})
        n == Len(dates)
    IN  [k \in 1..n |->
            [date |-> dates[n + 1 - k],
             preds |-> SelectSeq(predictions, LAMBDA p : p.game_date = dates[n + 1 - k])]]

group_by_date(predictions) ==
    LET dates == SortedSeqOf({p.game_date : p \in Range(predictions)})
    IN  [k \in 1..Len(dates) |->
            [date |-> dates[k],
             preds |-> SelectSeq(predictions, LAMBDA p : p.game_date = dates[k])]]

\* C24 mutant: the sort key is the confidence alone
KeyGreaterByConfidence(a, b) == a.confidence > b.confidence

\* The sort key (confidence, expected_value) compared as Python compares tuples
KeyGreater(a, b) ==
    \/ a.confidence > b.confidence
    \/ (a.confidence = b.confidence /\ a.expected_value > b.expected_value)

\* x goes in front of the first element whose key is strictly smaller
RECURSIVE InsertDescending(_, _)
InsertDescending(x, s) ==
    IF s = <<>> THEN <<x>>
    ELSE IF KeyGreater(x, Head(s)) THEN <<x>> \o s
    ELSE <<Head(s)>> \o InsertDescending(x, Tail(s))

\* sorted(predictions, key=..., reverse=True): descending and stable
RECURSIVE SortedPreds(_)
SortedPreds(predictions) ==
    IF predictions = <<>> THEN <<>>
    ELSE InsertDescending(predictions[Len(predictions)],
                          SortedPreds(SubSeq(predictions, 1, Len(predictions) - 1)))

\* C7 mutant: a base above 1 is not read as a percentage
KellyFractionRaw(base_bet_size) == base_bet_size

\* kelly_fraction = base_bet_size if base_bet_size <= 1 else base_bet_size / 100
KellyFraction(base_bet_size) ==
    IF RLe(base_bet_size, RInt(1)) THEN base_bet_size
    ELSE RDiv(base_bet_size, RInt(100))

\* if avg_confidence > 50 and avg_ev > 0
KellyHasEdge(avg_confidence, avg_ev) ==
    RGt(avg_confidence, RInt(50)) /\ RGt(avg_ev, RZero)

calculate_stake(bankroll, base_bet_size, strategy, props) ==
    IF strategy = "flat" THEN base_bet_size
    ELSE IF strategy = "percentage"
    THEN RMul(bankroll, RDiv(base_bet_size, RInt(100)))
    ELSE IF strategy = "kelly"
    THEN LET avg_confidence == RMean([i \in 1..Len(props) |-> RInt(props[i].confidence)])
             avg_ev == RMean([i \in 1..Len(props) |-> RInt(props[i].expected_value)])
         IN  IF KellyHasEdge(avg_confidence, avg_ev)
             THEN RMul(RMul(bankroll, RDiv(avg_ev, RInt(100))),
                       KellyFraction(base_bet_size))
             ELSE RZero
    ELSE base_bet_size

\* C30 mutant: half the stake on a wager whose first prop has no outcome yet
MakeBetSizedByOutcome(entry_props, entry_size, stake) ==
    LET sized == IF OutcomeKey(entry_props[1]) \in DOMAIN actual_outcomes THEN stake
                 ELSE RDiv(stake, RInt(2))
    IN  [date |-> entry_props[1].game_date,
         entry_size |-> entry_size,
         props |-> entry_props,
         stake |-> sized,
         payout_multiplier |-> PayoutMultiplier(entry_size),
         confidence_avg |-> RMean([i \in 1..Len(entry_props) |-> RInt(entry_props[i].confidence)]),
         expected_value |-> RMean([i \in 1..Len(entry_props) |-> RInt(entry_props[i].expected_value)]),
         sport |-> entry_props[1].sport,
         prop_types |-> [i \in 1..Len(entry_props) |-> entry_props[i].prop_type],
         potential_payout |-> RMul(sized, PayoutMultiplier(entry_size)),
         outcome |-> None,
         actual_pnl |-> RZero]

\* Bet(...) with __post_init__
MakeBet(entry_props, entry_size, stake) ==
    [date |-> entry_props[1].game_date,
     entry_size |-> entry_size,
     props |-> entry_props,
     stake |-> stake,
     payout_multiplier |-> PayoutMultiplier(entry_size),
     confidence_avg |-> RMean([i \in 1..Len(entry_props) |-> RInt(entry_props[i].confidence)]),
     expected_value |-> RMean([i \in 1..Len(entry_props) |-> RInt(entry_props[i].expected_value)]),
     sport |-> entry_props[1].sport,
     prop_types |-> [i \in 1..Len(entry_props) |-> entry_props[i].prop_type],
     potential_payout |-> RMul(stake, PayoutMultiplier(entry_size)),
     outcome |-> None,
     actual_pnl |-> RZero]

\* C27 mutant: only a stake above the bankroll is rejected
StakeRejectedAboveOnly(stake, bankroll) == RGt(stake, bankroll)

\* if stake <= 0 or stake > current_bankroll: break
StakeRejected(stake, bankroll) ==
    RLe(stake, RZero) \/ RGt(stake, bankroll)

\* C22 mutant: the next group starts one prediction further on
NextIndexByOne(i, entry_size) == i + 1

\* i += entry_size
NextIndex(i, entry_size) == i + entry_size

\* C5 mutant: an unaffordable group is skipped (continue) instead of ending
\* the run (break)
RECURSIVE create_entries_skipping(_, _, _, _, _, _, _)
create_entries_skipping(sorted_preds, i, entries, entry_size, bankroll, bet_size, strategy) ==
    IF i + entry_size <= Len(sorted_preds)
    THEN LET entry_props == SubSeq(sorted_preds, i + 1, i + entry_size)
             stake == calculate_stake(bankroll, bet_size, strategy, entry_props)
         IN  create_entries_skipping(
                 sorted_preds, i + entry_size,
                 IF StakeRejected(stake, bankroll) THEN entries
                 ELSE Append(entries, MakeBet(entry_props, entry_size, stake)),
                 entry_size, bankroll, bet_size, strategy)
    ELSE entries

\* The while loop of _create_entries from index i (0-based) on
RECURSIVE create_entries_from(_, _, _, _, _, _, _)
create_entries_from(sorted_preds, i, entries, entry_size, bankroll, bet_size, strategy) ==
    IF i + entry_size <= Len(sorted_preds)
    THEN LET entry_props == SubSeq(sorted_preds, i + 1, i + entry_size)
             stake == calculate_stake(bankroll, bet_size, strategy, entry_props)
         IN  IF StakeRejected(stake, bankroll) THEN entries
             ELSE create_entries_from(sorted_preds, NextIndex(i, entry_size),
                                      Append(entries, MakeBet(entry_props, entry_size, stake)),
                                      entry_size, bankroll, bet_size, strategy)
    ELSE entries

create_entries(predictions, entry_size, bankroll, bet_size, strategy) ==
    create_entries_from(SortedPreds(predictions), 0, <<>>, entry_size, bankroll,
                        bet_size, strategy)

\* if bankroll_strategy != 'flat': for bet in entry_bets: current_bankroll -= bet.stake
BankrollAfter(bankroll, entry_bets, strategy) ==
    IF strategy # "flat"
    THEN RSub(bankroll, RSum([i \in 1..Len(entry_bets) |-> entry_bets[i].stake]))
    ELSE bankroll

\* _generate_bets as a function of its arguments: the runs from
\* (date index d, entry size index e) on, with the bets and bankroll so far
RECURSIVE generate_bets_from(_, _, _, _, _, _, _, _)
generate_bets_from(groups, d, e, entry_sizes, acc, bankroll, bet_size, strategy) ==
    IF entry_sizes = <<>> \/ d > Len(groups) THEN acc
    ELSE LET entry_bets == create_entries(groups[d].preds, entry_sizes[e], bankroll,
                                          bet_size, strategy)
             d2 == IF e < Len(entry_sizes) THEN d ELSE d + 1
             e2 == IF e < Len(entry_sizes) THEN e + 1 ELSE 1
         IN  generate_bets_from(groups, d2, e2, entry_sizes, acc \o entry_bets,
                                BankrollAfter(bankroll, entry_bets, strategy),
                                bet_size, strategy)

generate_bets(predictions, entry_sizes, starting_bankroll, bet_size, strategy) ==
    generate_bets_from(group_by_date(predictions), 1, 1, entry_sizes, <<>>,
                       starting_bankroll, bet_size, strategy)

-----------------------------------------------------------------------------
(* Bet evaluator.                                                          *)

\* C1 mutant: an outcome equal to the projection counts as a miss
PropMissedOnEqual(actual_value, projected) == actual_value <= projected

\* if actual_value < projected: the prop did not hit
PropMissed(actual_value, projected) == actual_value < projected

\* The inner loop of _evaluate_bets: all_won after the props have been walked
RECURSIVE AllWon(_, _)
AllWon(props, outcomes) ==
    IF props = <<>> THEN TRUE
    ELSE LET key == OutcomeKey(Head(props))
         IN  IF key \notin DOMAIN outcomes THEN FALSE
             ELSE IF PropMissed(outcomes[key].value, Head(props).projected_value)
             THEN FALSE
             ELSE AllWon(Tail(props), outcomes)

\* C2 mutant: the stake is not taken off the payout
WinPnlGross(bet) == bet.potential_payout

\* bet.actual_pnl = bet.potential_payout - bet.stake
WinPnl(bet) == RSub(bet.potential_payout, bet.stake)

\* bet.actual_pnl = -bet.stake
LossPnl(bet) == RNeg(bet.stake)

\* C21 mutant: a wager that won is resolved, a wager that lost is left as it is
EvaluateBetWinsOnly(bet, outcomes) ==
    IF AllWon(bet.props, outcomes)
    THEN [bet EXCEPT !.outcome = "win", !.actual_pnl = WinPnl(bet)]
    ELSE bet

EvaluateBet(bet, outcomes) ==
    IF AllWon(bet.props, outcomes)
    THEN [bet EXCEPT !.outcome = "win", !.actual_pnl = WinPnl(bet)]
    ELSE [bet EXCEPT !.outcome = "loss", !.actual_pnl = LossPnl(bet)]

evaluate_bets(bs, outcomes) == [i \in 1..Len(bs) |-> EvaluateBet(bs[i], outcomes)]

-----------------------------------------------------------------------------
(* Performance calculator.                                                 *)

StakesOf(bs) == [i \in 1..Len(bs) |-> bs[i].stake]
PnlsOf(bs) == [i \in 1..Len(bs) |-> bs[i].actual_pnl]

\* sum(1 for b in bets if b.outcome == 'win')
CountWins(bs) == Cardinality({i \in 1..Len(bs) : bs[i].outcome = "win"})

\* C11 mutant: the drawdown as a fraction of the peak, not as a percentage
DrawdownFraction(peak, current) ==
    IF RGt(peak, RZero) THEN RDiv(RSub(peak, current), peak) ELSE RZero

\* drawdown = ((peak - current_bankroll) / peak * 100) if peak > 0 else 0
Drawdown(peak, current) ==
    IF RGt(peak, RZero)
    THEN RMul(RDiv(RSub(peak, current), peak), RInt(100))
    ELSE RZero

\* C10 mutant: the peak stays at the starting bankroll
NewPeakStuck(peak, current) == peak

\* if current_bankroll > peak: peak = current_bankroll
NewPeak(peak, current) == IF RGt(current, peak) THEN current ELSE peak

\* The drawdown walk over the bets from position i on
RECURSIVE DrawdownWalk(_, _, _, _, _, _)
DrawdownWalk(bs, i, starting_bankroll, cumulative_pnl, peak, max_drawdown) ==
    IF i > Len(bs) THEN max_drawdown
    ELSE LET cum == RAdd(cumulative_pnl, bs[i].actual_pnl)
             current == RAdd(starting_bankroll, cum)
             pk == NewPeak(peak, current)
         IN  DrawdownWalk(bs, i + 1, starting_bankroll, cum, pk,
                          RMax(max_drawdown, Drawdown(pk, current)))

MaxDrawdown(bs, starting_bankroll) ==
    DrawdownWalk(bs, 1, starting_bankroll, RZero, starting_bankroll, RZero)

\* _calculate_sharpe_ratio up to its sign: 0 when fewer than two returns or
\* when their standard deviation is 0, else the sign of the mean excess
\* return (the magnitude needs a square root and is not represented)
SharpeSign(returns) ==
    IF Len(returns) < 2 THEN 0
    ELSE IF \A i \in 1..Len(returns) : returns[i] = returns[1] THEN 0
    ELSE LET m == RSub(RMean(returns), Rat(2, 100 * 252))
         IN  IF m[1] > 0 THEN 1 ELSE IF m[1] < 0 THEN -1 ELSE 0

\* _calculate_streaks: the scan from position i on
RECURSIVE StreakWalk(_, _, _, _, _, _)
StreakWalk(bs, i, max_win, max_loss, cur_win, cur_loss) ==
    IF i > Len(bs) THEN <<max_win, max_loss>>
    ELSE IF bs[i].outcome = "win"
    THEN StreakWalk(bs, i + 1, IF cur_win + 1 > max_win THEN cur_win + 1 ELSE max_win,
                    max_loss, cur_win + 1, 0)
    ELSE StreakWalk(bs, i + 1, max_win,
                    IF cur_loss + 1 > max_loss THEN cur_loss + 1 ELSE max_loss,
                    0, cur_loss + 1)

\* C14 mutant: the wins and the losses are counted, consecutive or not
calculate_streaks_counting(bs) == <<CountWins(bs), Len(bs) - CountWins(bs)>>

calculate_streaks(bs) == StreakWalk(bs, 1, 0, 0, 0, 0)

\* _calculate_daily_results: one entry per date string, in the order in which
\* the dates first appear in the bet sequence
RECURSIVE DailyWalk(_, _, _, _, _)
DailyWalk(bs, i, starting_bankroll, cumulative_pnl, daily) ==
    IF i > Len(bs) THEN daily
    ELSE LET bet == bs[i]
             cum == RAdd(cumulative_pnl, bet.actual_pnl)
             known == \E k \in 1..Len(daily) : daily[k].date = bet.date
             d0 == IF known THEN daily
                   ELSE Append(daily, [date |-> bet.date, bets |-> 0, wins |-> 0,
                                       losses |-> 0, daily_pnl |-> RZero,
                                       cumulative_pnl |-> RZero, bankroll |-> RZero])
             k == CHOOSE k \in 1..Len(d0) : d0[k].date = bet.date
             d1 == [d0 EXCEPT ![k] =
                      [date |-> bet.date,
                       bets |-> @.bets + 1,
                       wins |-> @.wins + (IF bet.outcome = "win" THEN 1 ELSE 0),
                       losses |-> @.losses + (IF bet.outcome = "loss" THEN 1 ELSE 0),
                       daily_pnl |-> RAdd(@.daily_pnl, bet.actual_pnl),
                       cumulative_pnl |-> Round2(cum),
                       bankroll |-> Round2(RAdd(starting_bankroll, cum))]]
         IN  DailyWalk(bs, i + 1, starting_bankroll, cum, d1)

calculate_daily_results(bs, starting_bankroll) ==
    DailyWalk(bs, 1, starting_bankroll, RZero, <<>>)

\* C16 mutant: the empty result ends with an empty bankroll
empty_result_broke(starting_bankroll) ==
    [bets |-> <<>>, total_bets |-> 0, wins |-> 0, losses |-> 0,
     win_rate |-> RZero, total_profit |-> RZero, total_staked |-> RZero,
     roi |-> RZero, max_drawdown |-> RZero, sharpe_sign |-> 0,
     profit_factor |-> RZero, longest_win_streak |-> 0,
     longest_loss_streak |-> 0, starting_bankroll |-> starting_bankroll,
     ending_bankroll |-> RZero, avg_bet_size |-> RZero,
     daily_results |-> <<>>]

empty_result(starting_bankroll) ==
    [bets |-> <<>>, total_bets |-> 0, wins |-> 0, losses |-> 0,
     win_rate |-> RZero, total_profit |-> RZero, total_staked |-> RZero,
     roi |-> RZero, max_drawdown |-> RZero, sharpe_sign |-> 0,
     profit_factor |-> RZero, longest_win_streak |-> 0,
     longest_loss_streak |-> 0, starting_bankroll |-> starting_bankroll,
     ending_bankroll |-> starting_bankroll, avg_bet_size |-> RZero,
     daily_results |-> <<>>]

\* What the caller gets when a float division by a zero float raises
ZeroDivisionError == [raised |-> "ZeroDivisionError"]

\* returns = [b.actual_pnl / b.stake for b in bets] raises on a stake of 0
ReturnsRaise(bs) == \E i \in 1..Len(bs) : bs[i].stake = RZero

calculate_performance(bs, starting_bankroll) ==
    IF bs = <<>> THEN empty_result(starting_bankroll)
    ELSE IF Len(bs) > 1 /\ ReturnsRaise(bs) THEN ZeroDivisionError
    ELSE
    LET total_bets == Len(bs)
        wins == CountWins(bs)
        losses == total_bets - wins
        win_rate == IF total_bets > 0
                    THEN RMul(Rat(wins, total_bets), RInt(100)) ELSE RZero
        total_staked == RSum(StakesOf(bs))
        total_profit == RSum(PnlsOf(bs))
        roi == IF RGt(total_staked, RZero)
               THEN RMul(RDiv(total_profit, total_staked), RInt(100)) ELSE RZero
        ending_bankroll == RAdd(starting_bankroll, total_profit)
        avg_bet_size == IF total_bets > 0
                        THEN RDiv(total_staked, RInt(total_bets)) ELSE RZero
        sharpe_sign == IF Len(bs) > 1
                       THEN SharpeSign([i \in 1..Len(bs) |->
                                           RDiv(bs[i].actual_pnl, bs[i].stake)])
                       ELSE 0
        gross_profit == RSum(SelectSeq(PnlsOf(bs), LAMBDA x : RGt(x, RZero)))
        gross_loss == RAbs(RSum(SelectSeq(PnlsOf(bs), LAMBDA x : RLt(x, RZero))))
        profit_factor == IF RGt(gross_loss, RZero)
                         THEN RDiv(gross_profit, gross_loss) ELSE RZero
        streaks == calculate_streaks(bs)
    IN  [bets |-> bs, total_bets |-> total_bets, wins |-> wins, losses |-> losses,
         win_rate |-> Round2(win_rate),
         total_profit |-> Round2(total_profit),
         total_staked |-> Round2(total_staked),
         roi |-> Round2(roi),
         max_drawdown |-> Round2(MaxDrawdown(bs, starting_bankroll)),
         sharpe_sign |-> sharpe_sign,
         profit_factor |-> Round2(profit_factor),
         longest_win_streak |-> streaks[1],
         longest_loss_streak |-> streaks[2],
         starting_bankroll |-> starting_bankroll,
         ending_bankroll |-> Round2(ending_bankroll),
         avg_bet_size |-> Round2(avg_bet_size),
         daily_results |-> calculate_daily_results(bs, starting_bankroll)]

-----------------------------------------------------------------------------
(* Performance analyzer (performance_analyzer.py).  A dict is the sequence *)
(* of its values in the dict's order.                                      *)

\* round(x, 1): the nearest multiple of 1/10, ties to the even tenth
Round1(a) ==
    LET n == a[1] * 10
        q == n \div a[2]
        r == n % a[2]
        up == \/ 2 * r > a[2]
              \/ (2 * r = a[2] /\ q % 2 = 1)
    IN  Rat(IF up THEN q + 1 ELSE q, 10)

\* The keys of a sequence of <<key, bet>> pairs, in order of first appearance
RECURSIVE KeysInOrder(_)
KeysInOrder(pairs) ==
    IF pairs = <<>> THEN <<>>
    ELSE LET k == pairs[1][1]
         IN  <<k>> \o KeysInOrder(SelectSeq(Tail(pairs), LAMBDA q : q[1] # k))

\* C29 mutant: every wager under the key is counted as a loss
TallyAllLosses(pairs, key) ==
    LET bs == [i \in 1..Len(SelectSeq(pairs, LAMBDA q : q[1] = key)) |->
                  SelectSeq(pairs, LAMBDA q : q[1] = key)[i][2]]
    IN  [count |-> Len(bs),
         wins |-> Len(SelectSeq(bs, LAMBDA b : b.outcome = "win")),
         losses |-> Len(bs),
         total_staked |-> RSum(StakesOf(bs)),
         total_profit |-> RSum(PnlsOf(bs))]

\* What the loops over self.bets accumulate under one key: one contribution
\* per pair with that key
Tally(pairs, key) ==
    LET bs == [i \in 1..Len(SelectSeq(pairs, LAMBDA q : q[1] = key)) |->
                  SelectSeq(pairs, LAMBDA q : q[1] = key)[i][2]]
    IN  [count |-> Len(bs),
         wins |-> Len(SelectSeq(bs, LAMBDA b : b.outcome = "win")),
         losses |-> Len(SelectSeq(bs, LAMBDA b : b.outcome = "loss")),
         total_staked |-> RSum(StakesOf(bs)),
         total_profit |-> RSum(PnlsOf(bs))]

\* (wins / count) * 100
WinRate(data) == RMul(Rat(data.wins, data.count), RInt(100))

\* (total_profit / total_staked) * 100 if total_staked > 0 else 0
Roi(data) ==
    IF RGt(data.total_staked, RZero)
    THEN RMul(RDiv(data.total_profit, data.total_staked), RInt(100)) ELSE RZero

\* analyze_by_entry_size: one entry per entry size, ascending
analyze_by_entry_size(bs) ==
    LET pairs == [i \in 1..Len(bs) |-> <<bs[i].entry_size, bs[i]>>]
        sizes == SortedSeqOf({bs[i].entry_size : i \in 1..Len(bs)})
    IN  [k \in 1..Len(sizes) |->
            LET data == Tally(pairs, sizes[k])
            IN  [entry_size |-> sizes[k],
                 total_bets |-> data.count,
                 wins |-> data.wins,
                 losses |-> data.losses,
                 win_rate |-> Round2(WinRate(data)),
                 total_staked |-> Round2(data.total_staked),
                 total_profit |-> Round2(data.total_profit),
                 roi |-> Round2(Roi(data)),
                 avg_profit_per_bet |-> Round2(RDiv(data.total_profit, RInt(data.count))),
                 payout_multiplier |-> PayoutMultiplier(sizes[k])]]

\* x goes in front of the first element whose win rate is strictly smaller:
\* sort(key=win_rate, reverse=True) is descending and stable
RECURSIVE InsertByWinRate(_, _)
InsertByWinRate(x, s) ==
    IF s = <<>> THEN <<x>>
    ELSE IF RGt(x.win_rate, Head(s).win_rate) THEN <<x>> \o s
    ELSE <<Head(s)>> \o InsertByWinRate(x, Tail(s))

\* C25 mutant: the entries are left in the order in which they were built
SortByWinRateSkipped(s) == s

RECURSIVE SortByWinRate(_)
SortByWinRate(s) ==
    IF s = <<>> THEN <<>>
    ELSE InsertByWinRate(s[Len(s)], SortByWinRate(SubSeq(s, 1, Len(s) - 1)))

\* for bet in self.bets: for prop_type in bet.prop_types: one pair per element
\* of the wager's prop_types list
RECURSIVE PropTypePairs(_)
PropTypePairs(bs) ==
    IF bs = <<>> THEN <<>>
    ELSE [j \in 1..Len(bs[1].prop_types) |-> <<bs[1].prop_types[j], bs[1]>>]
         \o PropTypePairs(Tail(bs))

\* The confidences appended under prop_type: for every pair of that key, those
\* of the wager's props of that type
RECURSIVE ConfidencesOf(_, _)
ConfidencesOf(pairs, prop_type) ==
    IF pairs = <<>> THEN <<>>
    ELSE (IF pairs[1][1] = prop_type
          THEN LET ps == SelectSeq(pairs[1][2].props, LAMBDA q : q.prop_type = prop_type)
               IN  [m \in 1..Len(ps) |-> RInt(ps[m].confidence)]
          ELSE <<>>)
         \o ConfidencesOf(Tail(pairs), prop_type)

\* analyze_by_prop_type: one entry per prop type, by descending win rate
analyze_by_prop_type(bs) ==
    LET pairs == PropTypePairs(bs)
        keys == KeysInOrder(pairs)
    IN  SortByWinRate(
            [k \in 1..Len(keys) |->
                LET data == Tally(pairs, keys[k])
                    confs == ConfidencesOf(pairs, keys[k])
                IN  [prop_type |-> keys[k],
                     appearances |-> data.count,
                     wins |-> data.wins,
                     losses |-> data.losses,
                     win_rate |-> Round2(WinRate(data)),
                     total_profit |-> Round2(data.total_profit),
                     avg_confidence |-> Round2(IF confs # <<>> THEN RMean(confs) ELSE RZero)]])


\* buckets = [(60, 70), (70, 80), (80, 90), (90, 100)]
DefaultBuckets == <<<<60, 70>>, <<70, 80>>, <<80, 90>>, <<90, 100>>>>

\* for low, high in buckets: if low <= conf < high: ... break -- the index of
\* the first matching bucket from k on, 0 when the loop ends without a match
RECURSIVE BucketFrom(_, _, _)
BucketFrom(conf, buckets, k) ==
    IF k > Len(buckets) THEN 0
    ELSE IF RLe(RInt(buckets[k][1]), conf) /\ RLt(conf, RInt(buckets[k][2])) THEN k
    ELSE BucketFrom(conf, buckets, k + 1)

\* One pair per wager that matches a bucket; the key f"{low}-{high}%" is the
\* pair <<low, high>>
RECURSIVE BucketPairs(_, _)
BucketPairs(bs, buckets) ==
    IF bs = <<>> THEN <<>>
    ELSE LET k == BucketFrom(bs[1].confidence_avg, buckets, 1)
         IN  (IF k = 0 THEN <<>> ELSE <<<<buckets[k], bs[1]>>>>)
             \o BucketPairs(Tail(bs), buckets)

\* analyze_by_confidence_level: one entry per bucket that got a wager, in the
\* order in which the buckets were first hit
analyze_by_confidence_level(bs, buckets) ==
    LET pairs == BucketPairs(bs, buckets)
        keys == KeysInOrder(pairs)
    IN  [k \in 1..Len(keys) |->
            LET data == Tally(pairs, keys[k])
            IN  [confidence_range |-> keys[k],
                 total_bets |-> data.count,
                 wins |-> data.wins,
                 losses |-> data.losses,
                 win_rate |-> Round2(WinRate(data)),
                 total_staked |-> Round2(data.total_staked),
                 total_profit |-> Round2(data.total_profit),
                 roi |-> Round2(Roi(data))]]

\* The order of Python strings on the prop types drawn
CategoryRank ==
    [c \in {"assists", "passing_yards", "points", "rebounds"} |->
        IF c = "assists" THEN 1 ELSE IF c = "passing_yards" THEN 2
        ELSE IF c = "points" THEN 3 ELSE 4]

RECURSIVE InsertCategory(_, _)
InsertCategory(c, s) ==
    IF s = <<>> THEN <<c>>
    ELSE IF CategoryRank[c] < CategoryRank[Head(s)] THEN <<c>> \o s
    ELSE <<Head(s)>> \o InsertCategory(c, Tail(s))

\* tuple(sorted(bet.prop_types))
RECURSIVE SortedCategories(_)
SortedCategories(prop_types) ==
    IF prop_types = <<>> THEN <<>>
    ELSE InsertCategory(Head(prop_types), SortedCategories(Tail(prop_types)))

\* if bet.entry_size >= 2: combo = tuple(sorted(bet.prop_types))
RECURSIVE CombinationPairs(_)
CombinationPairs(bs) ==
    IF bs = <<>> THEN <<>>
    ELSE (IF bs[1].entry_size >= 2
          THEN <<<<SortedCategories(bs[1].prop_types), bs[1]>>>> ELSE <<>>)
         \o CombinationPairs(Tail(bs))

\* results[:10]
TopCombinations == 10

\* find_best_prop_combinations: the combinations with enough appearances, by
\* descending win rate, the first ten
find_best_prop_combinations(bs, min_appearances) ==
    LET pairs == CombinationPairs(bs)
        keys == SelectSeq(KeysInOrder(pairs),
                          LAMBDA c : Tally(pairs, c).count >= min_appearances)
        results == SortByWinRate(
            [k \in 1..Len(keys) |->
                LET data == Tally(pairs, keys[k])
                IN  [prop_combination |-> keys[k],
                     appearances |-> data.count,
                     wins |-> data.wins,
                     win_rate |-> Round2(WinRate(data)),
                     total_profit |-> Round2(data.total_profit),
                     avg_profit |-> Round2(RDiv(data.total_profit, RInt(data.count)))]])
    IN  SubSeq(results, 1, IF Len(results) < TopCombinations THEN Len(results)
                           ELSE TopCombinations)

\* calculate_optimal_entry_mix: the entry sizes with a positive ROI, each with
\* round(weight / total_weighted_roi * 100, 1)
calculate_optimal_entry_mix(bs) ==
    LET entry_analysis == analyze_by_entry_size(bs)
        entry_weights == SelectSeq(entry_analysis, LAMBDA data : RGt(data.roi, RZero))
        total_weighted_roi == RSum([k \in 1..Len(entry_weights) |-> entry_weights[k].roi])
    IN  IF RGt(total_weighted_roi, RZero)
        THEN [k \in 1..Len(entry_weights) |->
                 [entry_size |-> entry_weights[k].entry_size,
                  allocation |-> Round1(RMul(RDiv(entry_weights[k].roi, total_weighted_roi),
                                             RInt(100)))]]
        ELSE <<>>

\* analyze_by_sport: one entry per bet.sport, in order of first appearance
analyze_by_sport(bs) ==
    LET pairs == [i \in 1..Len(bs) |-> <<bs[i].sport, bs[i]>>]
        keys == KeysInOrder(pairs)
    IN  [k \in 1..Len(keys) |->
            LET data == Tally(pairs, keys[k])
            IN  [sport |-> keys[k],
                 total_bets |-> data.count,
                 wins |-> data.wins,
                 losses |-> data.losses,
                 win_rate |-> Round2(WinRate(data)),
                 total_staked |-> Round2(data.total_staked),
                 total_profit |-> Round2(data.total_profit),
                 roi |-> Round2(Roi(data))]]

\* analyze_time_series: one entry per window of window_size consecutive bets
analyze_time_series(bs, window_size) ==
    IF Len(bs) < window_size THEN <<>>
    ELSE [i \in 1..(Len(bs) - window_size + 1) |->
             LET window_bets == SubSeq(bs, i, i + window_size - 1)
             IN  [bet_number |-> i - 1 + window_size,
                  date |-> window_bets[window_size].date,
                  window_win_rate |-> Round2(RMul(Rat(CountWins(window_bets), window_size),
                                                  RInt(100))),
                  window_profit |-> Round2(RSum(PnlsOf(window_bets)))]]

\* np.std(returns) ** 2: the mean squared deviation from the mean
Variance(returns) ==
    LET m == RMean(returns)
    IN  RMean([i \in 1..Len(returns) |->
                  RMul(RSub(returns[i], m), RSub(returns[i], m))])

\* calculate_risk_metrics; of the volatility the square is kept, unrounded
\* (the square root is not represented), of the Sharpe ratio the sign
calculate_risk_metrics(res) ==
    LET bs == res.bets
        won == SelectSeq(bs, LAMBDA b : b.outcome = "win")
        lost == SelectSeq(bs, LAMBDA b : b.outcome = "loss")
    IN  IF bs = <<>> THEN <<>>
        ELSE IF ReturnsRaise(bs) THEN ZeroDivisionError
        ELSE [volatility_squared |->
                  Variance([i \in 1..Len(bs) |-> RDiv(bs[i].actual_pnl, bs[i].stake)]),
              max_drawdown |-> res.max_drawdown,
              sharpe_sign |-> res.sharpe_sign,
              profit_factor |-> res.profit_factor,
              avg_win |-> IF res.wins > 0 THEN Round2(RMean(PnlsOf(won))) ELSE RZero,
              avg_loss |-> IF res.losses > 0
                           THEN Round2(RMean([i \in 1..Len(lost) |-> RAbs(lost[i].actual_pnl)]))
                           ELSE RZero,
              win_loss_ratio |-> IF res.losses > 0
                                 THEN Round2(Rat(res.wins, res.losses)) ELSE RZero,
              longest_win_streak |-> res.longest_win_streak,
              longest_loss_streak |-> res.longest_loss_streak]

\* generate_summary_report: the result's headline fields and every breakdown
\* with its default arguments
generate_summary_report(res) ==
    IF res.bets # <<>> /\ ReturnsRaise(res.bets) THEN ZeroDivisionError
    ELSE [overall_performance |->
              [total_bets |-> res.total_bets, wins |-> res.wins, losses |-> res.losses,
               win_rate |-> res.win_rate, total_profit |-> res.total_profit,
               total_staked |-> res.total_staked, roi |-> res.roi,
               starting_bankroll |-> res.starting_bankroll,
               ending_bankroll |-> res.ending_bankroll],
          by_entry_size |-> analyze_by_entry_size(res.bets),
          by_prop_type |-> analyze_by_prop_type(res.bets),
          by_sport |-> analyze_by_sport(res.bets),
          by_confidence |-> analyze_by_confidence_level(res.bets, DefaultBuckets),
          best_prop_combinations |-> find_best_prop_combinations(res.bets, 10),
          optimal_entry_mix |-> calculate_optimal_entry_mix(res.bets),
          risk_metrics |-> calculate_risk_metrics(res),
          daily_results |-> res.daily_results]

\* ((current - baseline) / baseline) * 100 rounded, 0 when baseline = 0
Improvement(current, baseline) ==
    IF baseline # RZero
    THEN Round2(RMul(RDiv(RSub(current, baseline), baseline), RInt(100)))
    ELSE RZero

\* compare_to_baseline, on the metrics that are represented in full
compare_to_baseline(res, baseline_result) ==
    [win_rate_improvement |-> Improvement(res.win_rate, baseline_result.win_rate),
     roi_improvement |-> Improvement(res.roi, baseline_result.roi),
     total_profit_improvement |->
         Improvement(res.total_profit, baseline_result.total_profit)]

-----------------------------------------------------------------------------
(* The simulate_* calls, as steps.                                         *)

NoCall ==
    [strategy_name |-> None, confidence_threshold |-> 0, ev_threshold |-> 0,
     prop_types |-> <<>>, entry_sizes |-> <<>>, starting_bankroll |-> RZero,
     bet_size |-> RZero, bankroll_strategy |-> None, sport |-> None]

NoResult == [total_bets |-> -1]

NoAnalysis == [method |-> None, args |-> <<>>, value |-> <<>>]

\* The locals of a call that has not been made
NoFrame ==
    [pc |-> "idle", call |-> NoCall, filtered_predictions |-> <<>>, bets |-> <<>>,
     current_bankroll |-> RZero, run |-> <<1, 1>>, result |-> NoResult,
     analysis |-> NoAnalysis]

\* C23 mutant: the tracked bankroll is kept from the call before
BeginCallKeepingBankroll(c, filtered) ==
    /\ pc \in {"idle", "done"}
    /\ call' = c
    /\ filtered_predictions' = filtered
    /\ bets' = <<>>
    /\ current_bankroll' = IF pc = "done" THEN current_bankroll ELSE c.starting_bankroll
    /\ run' = <<1, 1>>
    /\ result' = NoResult
    /\ analysis' = NoAnalysis
    /\ pc' = "generate"
    /\ UNCHANGED <<historical_data, actual_outcomes, suspended>>

\* The entry of a simulate_* call up to the first run of _generate_bets:
\* the filter stage has run, bets = [] and current_bankroll = starting_bankroll
BeginCall(c, filtered) ==
    /\ pc \in {"idle", "done"}
    /\ call' = c
    /\ filtered_predictions' = filtered
    /\ bets' = <<>>
    /\ current_bankroll' = c.starting_bankroll
    /\ run' = <<1, 1>>
    /\ result' = NoResult
    /\ analysis' = NoAnalysis
    /\ pc' = "generate"
    /\ UNCHANGED <<historical_data, actual_outcomes, suspended>>

SimulateConfidenceBased(c) ==
    /\ c.strategy_name = "confidence_based"
    /\ BeginCall(c, filter_by_confidence(c.confidence_threshold, c.sport))

SimulateValueBased(c) ==
    /\ c.strategy_name = "value_based"
    /\ BeginCall(c, filter_by_ev(c.ev_threshold, c.sport))

SimulatePropSpecific(c) ==
    /\ c.strategy_name = "prop_specific"
    /\ BeginCall(c, filter_by_props(c.prop_types, c.confidence_threshold, c.sport))

SimulateComposite(c) ==
    /\ c.strategy_name = "composite"
    /\ BeginCall(c, filter_composite(c.confidence_threshold, c.ev_threshold,
                                     c.prop_types, c.sport))

\* The runs of _generate_bets that are still to come
RunsLeft ==
    /\ call.entry_sizes # <<>>
    /\ run[1] <= Len(group_by_date(filtered_predictions))

\* One (date, entry size) run: the body of the inner loop of _generate_bets
GenerateRun ==
    /\ pc = "generate"
    /\ RunsLeft
    /\ LET date_predictions == group_by_date(filtered_predictions)[run[1]].preds
           entry_size == call.entry_sizes[run[2]]
           entry_bets == create_entries(date_predictions, entry_size, current_bankroll,
                                        call.bet_size, call.bankroll_strategy)
       IN  /\ bets' = bets \o entry_bets
           /\ current_bankroll' = BankrollAfter(current_bankroll, entry_bets,
                                                call.bankroll_strategy)
    /\ run' = IF run[2] < Len(call.entry_sizes) THEN <<run[1], run[2] + 1>>
              ELSE <<run[1] + 1, 1>>
    /\ UNCHANGED <<historical_data, actual_outcomes, pc, call, filtered_predictions,
                   result, analysis, suspended>>

\* _generate_bets has returned; _evaluate_bets resolves every bet
EvaluateBets ==
    /\ pc = "generate"
    /\ ~RunsLeft
    /\ bets' = evaluate_bets(bets, actual_outcomes)
    /\ pc' = "evaluated"
    /\ UNCHANGED <<historical_data, actual_outcomes, call, filtered_predictions,
                   current_bankroll, run, result, analysis, suspended>>

CalculatePerformance ==
    /\ pc = "evaluated"
    /\ result' = calculate_performance(bets, call.starting_bankroll)
    /\ pc' = "done"
    /\ UNCHANGED <<historical_data, actual_outcomes, call, filtered_predictions,
                   bets, current_bankroll, run, analysis, suspended>>

\* PerformanceAnalyzer(result) exists once a simulation has returned a
\* BettingResult; its methods read self.bets = result.bets and leave every
\* other object alone
Analyzed(method, args, value) ==
    /\ pc = "done"
    /\ result # ZeroDivisionError
    /\ analysis' = [method |-> method, args |-> args, value |-> value]
    /\ UNCHANGED <<historical_data, actual_outcomes, pc, call, filtered_predictions,
                   bets, current_bankroll, run, result, suspended>>

\* Two calls on one simulator, from two threads: the call that was taking
\* steps is suspended with its locals, the other one goes on with its own.
\* self.historical_data and self.actual_outcomes are the same objects for both
Switch ==
    /\ suspended' = [pc |-> pc, call |-> call,
                     filtered_predictions |-> filtered_predictions, bets |-> bets,
                     current_bankroll |-> current_bankroll, run |-> run,
                     result |-> result, analysis |-> analysis]
    /\ pc' = suspended.pc
    /\ call' = suspended.call
    /\ filtered_predictions' = suspended.filtered_predictions
    /\ bets' = suspended.bets
    /\ current_bankroll' = suspended.current_bankroll
    /\ run' = suspended.run
    /\ result' = suspended.result
    /\ analysis' = suspended.analysis
    /\ UNCHANGED <<historical_data, actual_outcomes>>

\* StrategySimulator(historical_data, outcomes): another simulator over the
\* same predictions and another outcome lookup; the finished call of the
\* simulator before stays at hand with its result
NewSimulator(outcomes) ==
    /\ pc = "done"
    /\ actual_outcomes' = outcomes
    /\ suspended' = [pc |-> pc, call |-> call,
                     filtered_predictions |-> filtered_predictions, bets |-> bets,
                     current_bankroll |-> current_bankroll, run |-> run,
                     result |-> result, analysis |-> analysis]
    /\ pc' = "idle"
    /\ call' = NoCall
    /\ filtered_predictions' = <<>>
    /\ bets' = <<>>
    /\ current_bankroll' = RZero
    /\ run' = <<1, 1>>
    /\ result' = NoResult
    /\ analysis' = NoAnalysis
    /\ UNCHANGED historical_data

AnalyzeByEntrySize ==
    Analyzed("analyze_by_entry_size", <<>>, analyze_by_entry_size(result.bets))

AnalyzeByPropType ==
    Analyzed("analyze_by_prop_type", <<>>, analyze_by_prop_type(result.bets))

AnalyzeByConfidenceLevel(buckets) ==
    Analyzed("analyze_by_confidence_level", buckets,
             analyze_by_confidence_level(result.bets, buckets))

FindBestPropCombinations(min_appearances) ==
    Analyzed("find_best_prop_combinations", min_appearances,
             find_best_prop_combinations(result.bets, min_appearances))

CalculateOptimalEntryMix ==
    Analyzed("calculate_optimal_entry_mix", <<>>,
             calculate_optimal_entry_mix(result.bets))

AnalyzeBySport ==
    Analyzed("analyze_by_sport", <<>>, analyze_by_sport(result.bets))

AnalyzeTimeSeries(window_size) ==
    Analyzed("analyze_time_series", window_size,
             analyze_time_series(result.bets, window_size))

CalculateRiskMetrics ==
    Analyzed("calculate_risk_metrics", <<>>, calculate_risk_metrics(result))

GenerateSummaryReport ==
    Analyzed("generate_summary_report", <<>>, generate_summary_report(result))

CompareToBaseline(baseline_result) ==
    Analyzed("compare_to_baseline", baseline_result,
             compare_to_baseline(result, baseline_result))

-----------------------------------------------------------------------------
(* Inputs and specifications.                                              *)

\* The longest prediction collection drawn
MaxPreds == 3

\* All outcome lookups over the keys of the pool that map a key to one of vals
LookupsOver(pool, vals) ==
    UNION {[K -> [value : vals]] : K \in SUBSET {OutcomeKey(p) : p \in pool}}

Call(strategy_name, confidence_threshold, ev_threshold, prop_types, entry_sizes, starting_bankroll, bet_size, bankroll_strategy, sport) ==
    [strategy_name |-> strategy_name, confidence_threshold |-> confidence_threshold,
     ev_threshold |-> ev_threshold, prop_types |-> prop_types,
     entry_sizes |-> entry_sizes, starting_bankroll |-> starting_bankroll,
     bet_size |-> bet_size, bankroll_strategy |-> bankroll_strategy, sport |-> sport]

\* The state after StrategySimulator(historical_data, actual_outcomes)
InitOf(data, lookups) ==
    /\ historical_data \in data
    /\ actual_outcomes \in lookups
    /\ pc = "idle"
    /\ call = NoCall
    /\ filtered_predictions = <<>>
    /\ bets = <<>>
    /\ current_bankroll = RZero
    /\ run = <<1, 1>>
    /\ result = NoResult
    /\ analysis = NoAnalysis
    /\ suspended = NoFrame

NextOf(calls) ==
    \/ \E c \in calls : SimulateConfidenceBased(c)
    \/ \E c \in calls : SimulateValueBased(c)
    \/ \E c \in calls : SimulatePropSpecific(c)
    \/ \E c \in calls : SimulateComposite(c)
    \/ GenerateRun
    \/ EvaluateBets
    \/ CalculatePerformance

\* Evaluation and performance: predictions of two dates whose outcomes are
\* above, equal to or below the projection, or missing; flat stakes
PoolEval ==
    {Pred(1, 1, "points", 10, 80, 15, "NBA", 1),
     Pred(2, 1, "rebounds", 15, 70, 10, "NBA", 1),
     Pred(3, 1, "points", 20, 70, 10, "NBA", 1),
     Pred(4, 2, "assists", 15, 60, 5, "NBA", 2)}

CallsEval ==
    {Call("confidence_based", 0, 0, <<>>, es, RInt(1000), RInt(50), "flat", None) :
        es \in {<<2>>, <<2, 1>>, <<2, 3>>}}
    \cup {Call("value_based", 0, 0, <<>>, <<1, 2>>, RInt(1000), RInt(50), "flat", None),
          Call("prop_specific", 0, 0, <<"points", "rebounds">>, <<2>>, RInt(300), RInt(50), "flat", None),
          Call("composite", 0, 0, <<>>, <<1>>, RInt(300), RInt(50), "flat", None)}

Init == InitOf(DistinctSeqs(PoolEval, MaxPreds), LookupsOver(PoolEval, {15}))

Next == NextOf(CallsEval)

Spec == Init /\ [][Next]_vars

\* Payout table and partition: up to six predictions of one date and two of
\* the next, in the order in which the runner's query returns them (by date,
\* then player), entry sizes 1 to 6
SeqPayout ==
    <<Pred(1, 1, "points", 10, 80, 15, "NBA", 1),
      Pred(2, 1, "rebounds", 15, 75, 12, "NBA", 1),
      Pred(3, 1, "assists", 15, 70, 10, "NBA", 1),
      Pred(4, 1, "points", 10, 65, 7, "NBA", 1),
      Pred(5, 1, "rebounds", 15, 60, 5, "NBA", 1),
      Pred(6, 1, "assists", 10, 55, 2, "NBA", 1),
      Pred(7, 2, "points", 10, 85, 17, "NBA", 2),
      Pred(8, 2, "assists", 20, 45, 0, "NBA", 2)>>

\* The subsequences of s, as sequences
RECURSIVE SubSeqsOf(_)
SubSeqsOf(s) ==
    IF s = <<>> THEN {<<>>}
    ELSE LET rest == SubSeqsOf(Tail(s))
         IN  rest \cup {<<Head(s)>> \o r : r \in rest}

CallsPayout ==
    {Call("confidence_based", 0, 0, <<>>, <<k>>, RInt(1000), RInt(50), "flat", None) :
        k \in 1..6}
    \cup {Call("confidence_based", 0, 0, <<>>, <<2, 2>>, RInt(1000), RInt(50), "flat", None),
          Call("value_based", 0, 0, <<>>, <<2, 3>>, RInt(1000), RInt(50), "flat", None),
          Call("prop_specific", 0, 0, <<"points", "rebounds">>, <<2>>, RInt(1000), RInt(50), "flat", None),
          Call("composite", 0, 0, <<>>, <<6, 5, 4, 3, 2, 1>>, RInt(1000), RInt(50), "flat", None)}

\* Every outcome is 15 (below the projection of player 8 only), except that
\* any of those of players 1, 2 and 7 may be missing
LookupsPayout ==
    {[k \in {OutcomeKey(p) : p \in Range(SeqPayout) \ S} |-> [value |-> 15]] :
        S \in SUBSET {p \in Range(SeqPayout) : p.player_id \in {1, 2, 7}}}

InitPayout == InitOf(SubSeqsOf(SeqPayout), LookupsPayout)

NextPayout == NextOf(CallsPayout)

SpecPayout == InitPayout /\ [][NextPayout]_vars

\* Bet generation: predictions of two dates with and without an edge, the
\* four bankroll policies, base stakes that are and are not affordable, and a
\* flat stake below half a cent
PoolGen ==
    {Pred(1, 1, "points", 10, 90, 0, "NBA", 1),
     Pred(2, 1, "rebounds", 10, 80, 20, "NBA", 1),
     Pred(3, 1, "assists", 10, 40, 10, "NBA", 1),
     Pred(4, 2, "points", 10, 80, 20, "NBA", 2),
     Pred(5, 2, "rebounds", 10, 50, 10, "NBA", 2)}

EntrySizesGen == {<<1>>, <<2>>, <<1, 2>>, <<2, 1>>, <<1, 1>>}

PoliciesGen ==
    {<<"flat", RInt(50)>>, <<"flat", RInt(2000)>>, <<"flat", Rat(1, 250)>>,
     <<"percentage", RInt(10)>>, <<"percentage", RInt(60)>>,
     <<"kelly", Rat(1, 2)>>, <<"kelly", RInt(1)>>, <<"kelly", RInt(50)>>,
     <<"martingale", RInt(50)>>}

CallsGen ==
    {Call("confidence_based", 0, 0, <<>>, es, RInt(1000), pol[2], pol[1], None) :
        es \in EntrySizesGen, pol \in PoliciesGen}
    \cup {Call("confidence_based", 0, 0, <<>>, es, RInt(100), RInt(50), pol, None) :
        es \in EntrySizesGen, pol \in {"flat", "martingale"}}
    \cup {Call("value_based", 10, 10, <<>>, <<1>>, RInt(1000), RInt(1), "kelly", None),
          Call("prop_specific", 0, 0, <<"points", "rebounds">>, <<1>>, RInt(1000), RInt(10), "percentage", None),
          Call("composite", 50, 0, <<>>, <<2>>, RInt(1000), RInt(50), "flat", None)}

\* Every prediction hit, or the outcomes of date 2 not known yet
LookupsGen ==
    {[k \in {OutcomeKey(p) : p \in S} |-> [value |-> 10]] :
        S \in {PoolGen, {p \in PoolGen : p.game_date = 1}}}

InitGen == InitOf(DistinctSeqs(PoolGen, MaxPreds), LookupsGen)

NextGen == NextOf(CallsGen)

SpecGen == InitGen /\ [][NextGen]_vars

\* Filter stage: predictions that differ in confidence, expected value, prop
\* category and sport; every strategy kind with its criteria present or absent
PoolFilter ==
    {Pred(1, 1, "points", 10, 80, 15, "NBA", 1),
     Pred(2, 1, "rebounds", 10, 60, 5, "NBA", 1),
     Pred(3, 2, "passing_yards", 10, 70, 10, "NFL", 1),
     Pred(4, 1, "assists", 10, 70, 0, "NBA", 1),
     Pred(5, 2, "points", 10, 50, 10, "NFL", 1)}

ConfidenceThresholdsFilter == {0, 70}
EvThresholdsFilter == {0, 10}
PropTypesFilter == {<<>>, <<"points">>, <<"points", "assists">>}
SportsFilter == {None, "NBA", "NHL"}

CallsFilter ==
    {Call("confidence_based", ct, 0, <<>>, <<2>>, RInt(1000), RInt(50), "flat", sp) :
        ct \in ConfidenceThresholdsFilter, sp \in SportsFilter}
    \cup {Call("value_based", 0, et, <<>>, <<2>>, RInt(1000), RInt(50), "flat", sp) :
        et \in EvThresholdsFilter, sp \in SportsFilter}
    \cup {Call("prop_specific", ct, 0, pt, <<2>>, RInt(1000), RInt(50), "flat", sp) :
        ct \in ConfidenceThresholdsFilter, pt \in PropTypesFilter, sp \in SportsFilter}
    \cup {Call("composite", ct, et, pt, <<2>>, RInt(1000), RInt(50), "flat", sp) :
        ct \in ConfidenceThresholdsFilter, et \in EvThresholdsFilter,
        pt \in PropTypesFilter, sp \in SportsFilter}

LookupsFilter == {[k \in {OutcomeKey(p) : p \in PoolFilter} |-> [value |-> 10]]}

InitFilter == InitOf(DistinctSeqs(PoolFilter, MaxPreds), LookupsFilter)

NextFilter == NextOf(CallsFilter)

SpecFilter == InitFilter /\ [][NextFilter]_vars

\* Equity curve: predictions of three dates handed over in any order, stakes
\* and realized P&L that are not whole numbers of cents (a third of a kelly
\* stake, 12.5 percent of 1001)
PoolCurve ==
    {Pred(1, 1, "points", 10, 80, 20, "NBA", 1),
     Pred(2, 1, "rebounds", 10, 70, 20, "NBA", 1),
     Pred(3, 2, "assists", 10, 75, 20, "NBA", 2),
     Pred(4, 2, "points", 10, 65, 20, "NBA", 2),
     Pred(5, 3, "points", 10, 60, 10, "NBA", 3)}

CallsCurve ==
    {Call("confidence_based", 0, 0, <<>>, es, RInt(1000), RInt(50), "flat", None) :
        es \in {<<2>>, <<1, 2>>}}
    \cup {Call("value_based", 0, 0, <<>>, <<2>>, RInt(1000), Rat(1, 3), "kelly", None),
          Call("prop_specific", 0, 0, <<"points", "rebounds", "assists">>, <<2, 1>>, RInt(1001), Rat(25, 2), "percentage", None),
          Call("composite", 0, 0, <<>>, <<2>>, RInt(1001), Rat(25, 2), "percentage", None)}

\* Every outcome meets its projection; those of players 1 and 3 may be missing
LookupsCurve ==
    {[k \in {OutcomeKey(p) : p \in PoolCurve \ S} |-> [value |-> 10]] :
        S \in SUBSET {p \in PoolCurve : p.player_id \in {1, 3}}}

InitCurve == InitOf(DistinctSeqs(PoolCurve, MaxPreds), LookupsCurve)

NextCurve == NextOf(CallsCurve)

SpecCurve == InitCurve /\ [][NextCurve]_vars

\* The performance calculator on its own: _calculate_performance applied to
\* resolved sequences of two-prop wagers in date order
MaxBets == 3

\* The i-th prediction of these inputs: two per wager, two wagers per date
CalcPred(i) ==
    Pred(i, (i + 1) \div 2, IF i % 2 = 1 THEN "points" ELSE "rebounds", 10, 70, 10, "NBA", (i + 3) \div 4)

\* The k-th wager, as _create_entries builds it for a stake
CalcWager(k, stake) == MakeBet(<<CalcPred(2 * k - 1), CalcPred(2 * k)>>, 2, stake)

\* The outcome lookup under which, of the wagers ks, exactly those of lost
\* miss: their first prop has no outcome, every other prop meets its projection
CalcLookup(ks, lost) ==
    [key \in {OutcomeKey(CalcPred(2 * k - 1)) : k \in ks \ lost}
              \cup {OutcomeKey(CalcPred(2 * k)) : k \in ks} |-> [value |-> 10]]

\* The wagers ks with the stakes st, resolved against that lookup
CalcBets(ks, st, lost) ==
    LET seq == SortedSeqOf(ks)
    IN  evaluate_bets([i \in 1..Len(seq) |-> CalcWager(seq[i], st[seq[i]])],
                      CalcLookup(ks, lost))

CalcInput(ks, st, lost) == [ks |-> ks, st |-> st, lost |-> lost]

WagersCalc == 1..5
StakesCalc == {RInt(50), Rat(100, 3)}
BankrollsCalc == {RInt(1000), Rat(801, 8)}

\* Realized P&L +100, +50, -300, +20
ScenarioD ==
    CalcInput(1..4, 1 :> RInt(50) @@ 2 :> RInt(25) @@ 3 :> RInt(300) @@ 4 :> RInt(10), {3})

\* Ten wagers alternating win, loss, win, loss, ...
ScenarioC == CalcInput(1..10, [k \in 1..10 |-> RInt(50)], {2, 4, 6, 8, 10})

InputsCalc ==
    {ScenarioD, ScenarioC} \cup
    UNION {UNION {{CalcInput(ks, st, lost) : lost \in SUBSET ks} : st \in [ks -> StakesCalc]} :
              ks \in {K \in SUBSET WagersCalc : Cardinality(K) <= MaxBets}}

\* _calculate_performance is about to be called with bets and
\* starting_bankroll
InitCalcOf(inputs, bankrolls) ==
    /\ historical_data = <<>>
    /\ \E in \in inputs :
          /\ actual_outcomes = CalcLookup(in.ks, in.lost)
          /\ bets = CalcBets(in.ks, in.st, in.lost)
    /\ pc = "evaluated"
    /\ \E sb \in bankrolls : call = [NoCall EXCEPT !.starting_bankroll = sb]
    /\ filtered_predictions = <<>>
    /\ current_bankroll = RZero
    /\ run = <<1, 1>>
    /\ result = NoResult
    /\ analysis = NoAnalysis
    /\ suspended = NoFrame

InitCalc == InitCalcOf(InputsCalc, BankrollsCalc)

NextCalc == CalculatePerformance

SpecCalc == InitCalc /\ [][NextCalc]_vars

\* Degenerate calculator inputs: wagers whose stake is 0 among wagers at
\* stake 50, starting bankrolls 1000 and 0
WagersZero == 1..4
StakesZero == {RZero, RInt(50)}
BankrollsZero == {RInt(1000), RZero}

InputsZero ==
    UNION {UNION {{CalcInput(ks, st, lost) : lost \in SUBSET ks} : st \in [ks -> StakesZero]} :
              ks \in {K \in SUBSET WagersZero : Cardinality(K) <= MaxBets}}

InitZero == InitCalcOf(InputsZero, BankrollsZero)

SpecZero == InitZero /\ [][NextCalc]_vars

\* The analyzer: results over wagers of one to four props, with a prop type
\* once or twice in a wager, average confidences inside, between and outside
\* the default buckets
APred(k, j, prop_type, confidence) ==
    Pred(10 * k + j, k, prop_type, 10, confidence, 10, "NBA", (k + 3) \div 4)

PropsAnalyzer ==
    <<<<APred(1, 1, "points", 80), APred(1, 2, "rebounds", 70)>>,
      <<APred(2, 1, "points", 90), APred(2, 2, "points", 60)>>,
      <<APred(3, 1, "points", 100), APred(3, 2, "rebounds", 95), APred(3, 3, "points", 85)>>,
      <<APred(4, 1, "points", 90), APred(4, 2, "rebounds", 80), APred(4, 3, "rebounds", 70)>>,
      <<APred(5, 1, "assists", 100)>>,
      <<APred(6, 1, "assists", 55), APred(6, 2, "points", 55)>>,
      <<APred(7, 1, "points", 70), APred(7, 2, "rebounds", 70), APred(7, 3, "assists", 70),
        APred(7, 4, "points", 70)>>>>

\* The k-th wager, as _create_entries builds it at the flat stake 50
AnalyzerWager(k) == MakeBet(PropsAnalyzer[k], Len(PropsAnalyzer[k]), RInt(50))

\* The outcome lookup under which, of the wagers ks, exactly those of lost
\* miss: their first prop has no outcome
AnalyzerLookup(ks, lost) ==
    [key \in UNION {{OutcomeKey(p) : p \in Range(PropsAnalyzer[k])} : k \in ks}
              \ {OutcomeKey(PropsAnalyzer[k][1]) : k \in lost}
        |-> [value |-> 10]]

AnalyzerBets(ks, lost) ==
    LET seq == SortedSeqOf(ks)
    IN  evaluate_bets([i \in 1..Len(seq) |-> AnalyzerWager(seq[i])],
                      AnalyzerLookup(ks, lost))

\* _calculate_performance is about to be called with the wagers ks
InitAnalyzer ==
    /\ historical_data = <<>>
    /\ \E ks \in {K \in SUBSET (1..Len(PropsAnalyzer)) : Cardinality(K) <= MaxBets} :
          \E lost \in SUBSET ks :
              /\ actual_outcomes = AnalyzerLookup(ks, lost)
              /\ bets = AnalyzerBets(ks, lost)
    /\ pc = "evaluated"
    /\ call = [NoCall EXCEPT !.starting_bankroll = RInt(1000)]
    /\ filtered_predictions = <<>>
    /\ current_bankroll = RZero
    /\ run = <<1, 1>>
    /\ result = NoResult
    /\ analysis = NoAnalysis
    /\ suspended = NoFrame

\* buckets=None, and a list whose buckets overlap
BucketsAnalyzer == {DefaultBuckets, <<<<50, 80>>, <<70, 101>>>>}
MinAppearancesAnalyzer == {1, 2, 10}

NextAnalyzer ==
    \/ CalculatePerformance
    \/ AnalyzeByEntrySize
    \/ AnalyzeByPropType
    \/ \E buckets \in BucketsAnalyzer : AnalyzeByConfidenceLevel(buckets)
    \/ \E min_appearances \in MinAppearancesAnalyzer :
           FindBestPropCombinations(min_appearances)
    \/ CalculateOptimalEntryMix

SpecAnalyzer == InitAnalyzer /\ [][NextAnalyzer]_vars

\* Whole runs: simulations over predictions of two sports and two dates under
\* the three bankroll policies, each followed by analyzer queries on its result
PoolRun ==
    {Pred(1, 1, "points", 10, 80, 15, "NBA", 1),
     Pred(2, 1, "rebounds", 15, 70, 10, "NBA", 1),
     Pred(3, 2, "passing_yards", 20, 75, 10, "NFL", 1),
     Pred(4, 3, "points", 15, 60, 5, "NBA", 2),
     Pred(5, 4, "passing_yards", 10, 65, 10, "NFL", 2)}

CallsRun ==
    {Call("confidence_based", 0, 0, <<>>, es, RInt(1000), RInt(50), "flat", None) :
        es \in {<<2>>, <<1, 2>>}}
    \cup {Call("value_based", 0, 0, <<>>, <<1>>, RInt(1000), RInt(10), "percentage", None),
          Call("prop_specific", 0, 0, <<"points", "passing_yards">>, <<1>>, RInt(1000), RInt(1), "kelly", None),
          Call("composite", 0, 0, <<>>, <<1>>, RInt(1000), RInt(50), "flat", "NFL")}

\* Every outcome is 15 (below the projection of player 3 only); those of
\* players 1 and 5 may be missing
LookupsRun ==
    {[k \in {OutcomeKey(p) : p \in PoolRun \ S} |-> [value |-> 15]] :
        S \in SUBSET {p \in PoolRun : p.player_id \in {1, 5}}}

InitRun == InitOf(DistinctSeqs(PoolRun, MaxPreds), LookupsRun)

WindowSizesRun == {1, 2, 7}

\* The result of another strategy, for compare_to_baseline
BaselineRun == calculate_performance(AnalyzerBets({1, 2}, {2}), RInt(1000))

NextRun ==
    \/ NextOf(CallsRun)
    \/ AnalyzeByEntrySize
    \/ AnalyzeByPropType
    \/ AnalyzeBySport
    \/ \E buckets \in BucketsAnalyzer : AnalyzeByConfidenceLevel(buckets)
    \/ \E min_appearances \in MinAppearancesAnalyzer :
           FindBestPropCombinations(min_appearances)
    \/ CalculateOptimalEntryMix
    \/ \E window_size \in WindowSizesRun : AnalyzeTimeSeries(window_size)
    \/ CalculateRiskMetrics
    \/ GenerateSummaryReport
    \/ \E baseline_result \in {result, empty_result(call.starting_bankroll), BaselineRun} :
           CompareToBaseline(baseline_result)

SpecRun == InitRun /\ [][NextRun]_vars

\* Two threads: calls of the four kinds under percentage, kelly and flat on one
\* simulator, interleaved run by run
PoolThreads ==
    {Pred(1, 1, "points", 10, 90, 20, "NBA", 1),
     Pred(2, 1, "rebounds", 10, 80, 10, "NBA", 1),
     Pred(3, 2, "points", 10, 70, 20, "NBA", 2),
     Pred(4, 2, "assists", 10, 60, 10, "NBA", 2)}

CallsThreads ==
    {Call("confidence_based", 0, 0, <<>>, <<1>>, RInt(1000), RInt(10), "percentage", None),
     Call("value_based", 0, 20, <<>>, <<1>>, RInt(1000), RInt(1), "kelly", None),
     Call("prop_specific", 0, 0, <<"points", "rebounds">>, <<1, 2>>, RInt(1000), RInt(50), "percentage", None),
     Call("composite", 0, 0, <<>>, <<2>>, RInt(100), RInt(50), "flat", None)}

\* Every outcome meets its projection, or those of date 2 are not known yet
LookupsThreads ==
    {[k \in {OutcomeKey(p) : p \in S} |-> [value |-> 10]] :
        S \in {PoolThreads, {p \in PoolThreads : p.game_date = 1}}}

InitThreads == InitOf(DistinctSeqs(PoolThreads, MaxPreds), LookupsThreads)

NextThreads == NextOf(CallsThreads) \/ Switch

SpecThreads == InitThreads /\ [][NextThreads]_vars

\* Ranking: predictions of one date with equal confidences and different
\* expected values, and with equal pairs, handed over in any order
MaxRanked == 4

PoolRanked ==
    {Pred(1, 1, "points", 10, 80, 10, "NBA", 1),
     Pred(2, 1, "points", 10, 80, 20, "NBA", 1),
     Pred(3, 1, "points", 10, 70, 10, "NBA", 1),
     Pred(4, 1, "points", 10, 70, 10, "NBA", 1),
     Pred(5, 1, "points", 10, 90, 5, "NBA", 1)}

CallsRanked ==
    {Call("confidence_based", 0, 0, <<>>, <<1>>, RInt(1000), RInt(50), "flat", None),
     Call("value_based", 0, 0, <<>>, <<2>>, RInt(1000), RInt(50), "flat", None),
     Call("prop_specific", 0, 0, <<"points">>, <<1, 2>>, RInt(1000), RInt(1), "kelly", None),
     Call("composite", 0, 0, <<>>, <<2, 1>>, RInt(1000), RInt(30), "percentage", None)}

LookupsRanked == {[k \in {OutcomeKey(p) : p \in PoolRanked} |-> [value |-> 10]]}

InitRanked == InitOf(DistinctSeqs(PoolRanked, MaxRanked), LookupsRanked)

NextRanked == NextOf(CallsRanked)

SpecRanked == InitRanked /\ [][NextRanked]_vars

\* Combination mining: wagers over every set of two to four of four prop
\* categories (eleven sets), two of the sets a second time in another order,
\* and a single-prop wager
CategoriesMining ==
    <<<<"points", "rebounds">>, <<"assists", "points">>, <<"assists", "rebounds">>,
      <<"passing_yards", "points">>, <<"passing_yards", "rebounds">>,
      <<"assists", "passing_yards">>, <<"assists", "points", "rebounds">>,
      <<"assists", "passing_yards", "points">>, <<"assists", "passing_yards", "rebounds">>,
      <<"passing_yards", "points", "rebounds">>,
      <<"assists", "passing_yards", "points", "rebounds">>,
      <<"rebounds", "points">>, <<"assists">>, <<"points", "assists">>>>

PropsMining(k) ==
    [j \in 1..Len(CategoriesMining[k]) |-> APred(k, j, CategoriesMining[k][j], 70)]

\* The k-th wager, as _create_entries builds it at the flat stake 50
MiningWager(k) == MakeBet(PropsMining(k), Len(PropsMining(k)), RInt(50))

\* The outcome lookup under which, of the wagers ks, exactly those of lost
\* miss: their first prop has no outcome
MiningLookup(ks, lost) ==
    [key \in UNION {{OutcomeKey(p) : p \in Range(PropsMining(k))} : k \in ks}
              \ {OutcomeKey(PropsMining(k)[1]) : k \in lost}
        |-> [value |-> 10]]

MiningBets(ks, lost) ==
    LET seq == SortedSeqOf(ks)
    IN  evaluate_bets([i \in 1..Len(seq) |-> MiningWager(seq[i])],
                      MiningLookup(ks, lost))

\* _calculate_performance is about to be called with all the wagers but some
\* of the three-prop and four-prop ones, some of them lost
InitMining ==
    /\ historical_data = <<>>
    /\ \E left \in SUBSET {9, 10, 11} :
          \E lost \in SUBSET ({1, 2, 5, 8, 11, 12} \ left) :
              LET ks == (1..Len(CategoriesMining)) \ left
              IN  /\ actual_outcomes = MiningLookup(ks, lost)
                  /\ bets = MiningBets(ks, lost)
    /\ pc = "evaluated"
    /\ call = [NoCall EXCEPT !.starting_bankroll = RInt(1000)]
    /\ filtered_predictions = <<>>
    /\ current_bankroll = RZero
    /\ run = <<1, 1>>
    /\ result = NoResult
    /\ analysis = NoAnalysis
    /\ suspended = NoFrame

NextMining ==
    \/ CalculatePerformance
    \/ \E min_appearances \in MinAppearancesAnalyzer :
           FindBestPropCombinations(min_appearances)

SpecMining == InitMining /\ [][NextMining]_vars

\* The same predictions and calls against different outcome lookups: every
\* outcome meets its projection, those of date 2 are not known yet, none is
\* known, every outcome is below its projection
LookupsOutcomes ==
    LookupsThreads
    \cup {[k \in {OutcomeKey(p) : p \in S} |-> [value |-> v]] :
              S \in {{}, PoolThreads}, v \in {5}}

InitOutcomes == InitOf(DistinctSeqs(PoolThreads, MaxPreds), LookupsOutcomes)

NextOutcomes ==
    \/ NextOf(CallsThreads)
    \/ \E outcomes \in LookupsOutcomes : NewSimulator(outcomes)

SpecOutcomes == InitOutcomes /\ [][NextOutcomes]_vars

-----------------------------------------------------------------------------
(* Claims.                                                                 *)

Resolved == pc \in {"evaluated", "done"}

\* The prop has an entry in the lookup whose value is >= its projection
PropHit(prop) ==
    /\ OutcomeKey(prop) \in DOMAIN actual_outcomes
    /\ actual_outcomes[OutcomeKey(prop)].value >= prop.projected_value

ClaimedMultiplier(entry_size) ==
    CASE entry_size = 2 -> RInt(3)
      [] entry_size = 3 -> RInt(6)
      [] entry_size = 4 -> RInt(10)
      [] entry_size = 5 -> RInt(20)
      [] OTHER -> RInt(1)

\* C2: after evaluation a winning wager has realized P&L
\* stake * (payout_multiplier - 1) and a losing wager has -stake, with the
\* multiplier 3, 6, 10, 20 for entry sizes 2, 3, 4, 5 and 1 for any other
\* size; two props at flat stake 50 give +100 on a win and -50 on a loss.
C2_RealizedPnl ==
    Resolved =>
        \A i \in 1..Len(bets) :
            LET b == bets[i]
            IN  /\ b.payout_multiplier = ClaimedMultiplier(b.entry_size)
                /\ b.outcome = "win" =>
                       b.actual_pnl = RMul(b.stake, RSub(ClaimedMultiplier(b.entry_size), RInt(1)))
                /\ b.outcome = "loss" => b.actual_pnl = RNeg(b.stake)
                /\ (b.entry_size = 2 /\ b.stake = RInt(50)) =>
                       b.actual_pnl = IF b.outcome = "win" THEN RInt(100) ELSE RInt(-50)

\* C2 witness: evaluated wagers of every entry size from 1 to 6 that won, and
\* a wager that lost
C2_Witness ==
    /\ pc = "evaluated"
    /\ \A n \in 1..6 :
          \E i \in 1..Len(bets) : bets[i].outcome = "win" /\ bets[i].entry_size = n
    /\ \E i \in 1..Len(bets) : bets[i].outcome = "loss"

\* C3: the wagers generated for one date and one entry size have pairwise
\* disjoint props: no prediction appears in two wagers of the same entry size
\* on the same date.
C3_DisjointProps ==
    \A i, j \in 1..Len(bets) :
        (i < j /\ bets[i].date = bets[j].date /\ bets[i].entry_size = bets[j].entry_size)
            => Range(bets[i].props) \cap Range(bets[j].props) = {}

\* The sum of the stakes of the first n wagers
StakedBefore(n) == RSum([k \in 1..n |-> bets[k].stake])

\* C4: under the percentage policy every wager's stake is
\* (starting bankroll - stakes of all wagers generated before it, those of its
\* own run included) * base / 100.
C4_StakeTracksEveryWager ==
    call.bankroll_strategy = "percentage" =>
        \A i \in 1..Len(bets) :
            bets[i].stake =
                RMul(RSub(call.starting_bankroll, StakedBefore(i - 1)),
                     RDiv(call.bet_size, RInt(100)))

\* The run that GenerateRun is about to make: its ranked candidates, its entry
\* size, its candidate groups
RunSize == call.entry_sizes[run[2]]
RunCandidates == SortedPreds(group_by_date(filtered_predictions)[run[1]].preds)
RunGroupCount == Len(RunCandidates) \div RunSize
RunGroup(k) == SubSeq(RunCandidates, (k - 1) * RunSize + 1, k * RunSize)
RunNext == IF run[2] < Len(call.entry_sizes) THEN <<run[1], run[2] + 1>> ELSE <<run[1] + 1, 1>>

\* C5: in a run, the first candidate group whose computed stake is <= 0 or
\* above the tracked bankroll ends the run: the run's wagers are exactly the
\* groups ranked before it; the wagers generated earlier stay in the output and
\* generation goes on with the next run.
C5_RunStopsAtUnaffordable ==
    [][(pc = "generate" /\ RunsLeft) =>
        LET stake(k) == calculate_stake(current_bankroll, call.bet_size,
                                        call.bankroll_strategy, RunGroup(k))
            unaffordable(k) == RLe(stake(k), RZero) \/ RGt(stake(k), current_bankroll)
            made == Len(bets') - Len(bets)
        IN  /\ pc' = "generate"
            /\ run' = RunNext
            /\ made >= 0
            /\ SubSeq(bets', 1, Len(bets)) = bets
            /\ \A k \in 1..RunGroupCount :
                  k <= made <=> \A j \in 1..k : ~unaffordable(j)
            /\ \A k \in 1..made :
                  /\ k <= RunGroupCount
                  /\ bets'[Len(bets) + k].props = RunGroup(k)]_vars

\* C5 witness: a kelly call over entry size 1 whose first date had two
\* candidates but yielded one wager (the second was unaffordable), and whose
\* second date then yielded a wager
C5_Witness ==
    /\ pc = "evaluated"
    /\ call.bankroll_strategy = "kelly"
    /\ call.entry_sizes = <<1>>
    /\ Cardinality({i \in 1..Len(filtered_predictions) :
                       filtered_predictions[i].game_date = 1}) >= 2
    /\ Cardinality({i \in 1..Len(bets) : bets[i].date = 1}) = 1
    /\ \E i \in 1..Len(bets) : bets[i].date = 2

\* C6: with an unrecognized bankroll policy name the generator produces the
\* wager sequence that the flat policy produces.
C6_UnknownPolicyAsFlat ==
    (pc = "generate" /\ ~RunsLeft
        /\ call.bankroll_strategy \notin {"flat", "percentage", "kelly"})
    => bets = generate_bets(filtered_predictions, call.entry_sizes,
                            call.starting_bankroll, call.bet_size, "flat")

\* The kelly stake as the claim states it
ClaimedKellyStake(props, bankroll, base) ==
    LET n == Len(props)
        avg_conf == Rat(RSum([i \in 1..n |-> RInt(props[i].confidence)])[1], n)
        avg_ev == Rat(RSum([i \in 1..n |-> RInt(props[i].expected_value)])[1], n)
        f == IF RLe(base, RInt(1)) THEN base ELSE RDiv(base, RInt(100))
    IN  IF RLe(avg_conf, RInt(50)) \/ RLe(avg_ev, RZero) THEN RZero
        ELSE RMul(RMul(bankroll, RDiv(avg_ev, RInt(100))), f)

\* C7: under kelly a group with average confidence <= 50 or average expected
\* value <= 0 has stake 0 and yields no wager; any other group has stake
\* bankroll * (average EV / 100) * f, f being the base when base <= 1 and
\* base / 100 otherwise; no kelly wager has confidence_avg <= 50 or an
\* expected-value average <= 0.
C7_KellyStake ==
    [][(pc = "generate" /\ RunsLeft /\ call.bankroll_strategy = "kelly") =>
        LET stake(k) == ClaimedKellyStake(RunGroup(k), current_bankroll, call.bet_size)
            made == Len(bets') - Len(bets)
        IN  /\ \A k \in 1..RunGroupCount :
                  k <= made <=>
                      \A j \in 1..k : RGt(stake(j), RZero) /\ RLe(stake(j), current_bankroll)
            /\ \A k \in 1..made : bets'[Len(bets) + k].stake = stake(k)
            /\ \A i \in 1..Len(bets') :
                  /\ RGt(bets'[i].confidence_avg, RInt(50))
                  /\ RGt(bets'[i].expected_value, RZero)]_vars

\* C7 witness: a finished kelly generation with a base above 1 that produced a
\* wager although one candidate had confidence <= 50 and one had no expected
\* value
C7_Witness ==
    /\ pc = "generate" /\ ~RunsLeft
    /\ call.bankroll_strategy = "kelly"
    /\ RGt(call.bet_size, RInt(1))
    /\ bets # <<>>
    /\ \E i \in 1..Len(filtered_predictions) : filtered_predictions[i].confidence <= 50
    /\ \E i \in 1..Len(filtered_predictions) : filtered_predictions[i].expected_value = 0

\* The predictions of historical_data at the positions in idx, in order
PredictionsAt(idx) ==
    LET pos == SortedSeqOf(idx)
    IN  [k \in 1..Len(pos) |-> historical_data[pos[k]]]

\* The predicates of a strategy kind as C8 lists them: the thresholds and the
\* prop list of a kind count whenever the kind takes them (composite: a
\* threshold when > 0, the prop list when not empty), the sport when given
Satisfies(c, p) ==
    LET conf_ok == p.confidence >= c.confidence_threshold
        ev_ok == p.expected_value >= c.ev_threshold
        prop_ok == p.prop_type \in Range(c.prop_types)
        sport_ok == c.sport = None \/ p.sport = c.sport
    IN  CASE c.strategy_name = "confidence_based" -> conf_ok /\ sport_ok
          [] c.strategy_name = "value_based" -> ev_ok /\ sport_ok
          [] c.strategy_name = "prop_specific" -> prop_ok /\ conf_ok /\ sport_ok
          [] c.strategy_name = "composite" ->
                /\ (c.confidence_threshold > 0 => conf_ok)
                /\ (c.ev_threshold > 0 => ev_ok)
                /\ (c.prop_types # <<>> => prop_ok)
                /\ sport_ok

SatisfiesPresent(c, p) ==
    LET conf_ok == c.confidence_threshold = 0 \/ p.confidence >= c.confidence_threshold
        ev_ok == c.ev_threshold = 0 \/ p.expected_value >= c.ev_threshold
        prop_ok == c.prop_types = <<>> \/ p.prop_type \in Range(c.prop_types)
        sport_ok == c.sport = None \/ p.sport = c.sport
    IN  CASE c.strategy_name = "confidence_based" -> conf_ok /\ sport_ok
          [] c.strategy_name = "value_based" -> ev_ok /\ sport_ok
          [] c.strategy_name = "prop_specific" -> prop_ok /\ conf_ok /\ sport_ok
          [] c.strategy_name = "composite" -> conf_ok /\ ev_ok /\ prop_ok /\ sport_ok

\* C9: in every strategy kind an absent criterion (no sport, a threshold of 0,
\* no or an empty prop list) excludes no prediction; a strategy whose criteria
\* are all absent passes every historical prediction on to bet generation.
C9_AbsentCriteriaExcludeNothing ==
    pc # "idle" =>
        filtered_predictions =
            PredictionsAt({i \in 1..Len(historical_data) :
                              SatisfiesPresent(call, historical_data[i])})

\* The equity after the first i wagers, its running peak and the drawdown
EquityAfter(i) == RAdd(call.starting_bankroll, RSum([k \in 1..i |-> bets[k].actual_pnl]))

RECURSIVE PeakAfter(_)
PeakAfter(i) == IF i = 0 THEN call.starting_bankroll ELSE RMax(PeakAfter(i - 1), EquityAfter(i))

DrawdownAfter(i) ==
    RMul(RDiv(RSub(PeakAfter(i), EquityAfter(i)), PeakAfter(i)), RInt(100))

RECURSIVE LargestDrawdown(_)
LargestDrawdown(i) ==
    IF i = 0 THEN RZero ELSE RMax(LargestDrawdown(i - 1), DrawdownAfter(i))

\* C10 as stated: the reported max_drawdown equals the largest
\* (peak - current) / peak * 100 over the wagers in sequence order.
C10_MaxDrawdownExact ==
    pc = "done" => result.max_drawdown = LargestDrawdown(Len(bets))

\* C10 amended: the reported max_drawdown is that largest drawdown rounded to
\* two decimals; it is >= 0, and it is 0 when the equity never falls below
\* its running peak.
C10_MaxDrawdownRounded ==
    pc = "done" =>
        /\ result.max_drawdown = Round2(LargestDrawdown(Len(bets)))
        /\ RGe(result.max_drawdown, RZero)
        /\ (\A i \in 1..Len(bets) : RGe(EquityAfter(i), PeakAfter(i - 1)))
               => result.max_drawdown = RZero

\* C10 witness: a result whose equity rose above the starting bankroll and
\* then fell, with a drawdown that is not a whole number of hundredths
C10_Witness ==
    /\ pc = "done"
    /\ \E i, j \in 1..Len(bets) :
          i < j /\ RGt(bets[i].actual_pnl, RZero) /\ RLt(bets[j].actual_pnl, RZero)
    /\ RGt(result.max_drawdown, RZero)
    /\ result.max_drawdown # LargestDrawdown(Len(bets))

\* The wager sequence of scenario D has been calculated
ScenarioDCalculated ==
    /\ pc = "done"
    /\ call.starting_bankroll = RInt(1000)
    /\ PnlsOf(bets) = <<RInt(100), RInt(50), RInt(-300), RInt(20)>>

\* C11 as stated: starting bankroll 1000 and realized P&L +100, +50, -300, +20
\* in that order report a max drawdown of (1150 - 870) / 1150 * 100, which is
\* 24.35 to two decimals.
C11_ScenarioD ==
    ScenarioDCalculated
    => result.max_drawdown = Round2(RMul(RDiv(RInt(1150 - 870), RInt(1150)), RInt(100)))

\* C11 amended: the equity runs 1100, 1150, 850, 870, so the reported max
\* drawdown is the one after the third wager, (1150 - 850) / 1150 * 100, which
\* is 26.09 to two decimals.
C11_ScenarioDLowest ==
    ScenarioDCalculated
    => /\ [i \in 1..4 |-> EquityAfter(i)] = <<RInt(1100), RInt(1150), RInt(850), RInt(870)>>
       /\ result.max_drawdown = Rat(2609, 100)
       /\ result.max_drawdown =
              Round2(RMul(RDiv(RInt(1150 - 850), RInt(1150)), RInt(100)))

\* C11 witness: the scenario has been calculated over its four wagers
C11_Witness ==
    /\ ScenarioDCalculated
    /\ result.total_bets = 4
    /\ result.total_profit = RInt(-130)

\* C12: in every BettingResult the reported ending_bankroll equals the
\* reported starting_bankroll plus the reported total_profit, exactly.
C12_EndingIsStartPlusProfit ==
    pc = "done" =>
        result.ending_bankroll = RAdd(result.starting_bankroll, result.total_profit)

\* C13: for every resolved wager sequence, wagers whose stake is 0 included,
\* no ratio computation of the calculator raises, and a ratio whose
\* denominator is 0 is reported as 0 (win rate, ROI, average stake, drawdown,
\* Sharpe ratio, profit factor).
C13_ZeroDenominatorFallback ==
    pc = "done" =>
        IF result = ZeroDivisionError THEN FALSE
        ELSE /\ (Len(bets) = 0 => result.win_rate = RZero /\ result.avg_bet_size = RZero)
             /\ (RSum(StakesOf(bets)) = RZero => result.roi = RZero)
             /\ (call.starting_bankroll = RZero /\ \A i \in 1..Len(bets) : bets[i].actual_pnl = RZero)
                    => result.max_drawdown = RZero
             /\ (Len(bets) < 2 => result.sharpe_sign = 0)
             /\ ((\A i \in 1..Len(bets) : RGe(bets[i].actual_pnl, RZero))
                    => result.profit_factor = RZero)

\* The length of the longest run of consecutive wagers with outcome o
LongestRun(o) ==
    LET runs == {<<i, j>> \in (1..Len(bets)) \X (1..Len(bets)) :
                    i <= j /\ \A k \in i..j : bets[k].outcome = o}
    IN  IF runs = {} THEN 0
        ELSE LET r == CHOOSE r \in runs : \A q \in runs : q[2] - q[1] <= r[2] - r[1]
             IN  r[2] - r[1] + 1

\* Ten wagers alternating win, loss, win, loss, ...
Alternating10 ==
    /\ Len(bets) = 10
    /\ \A i \in 1..10 : bets[i].outcome = IF i % 2 = 1 THEN "win" ELSE "loss"

\* C14: longest_win_streak (longest_loss_streak) is the length of the longest
\* run of consecutive wins (losses), 0 when there is none; ten wagers
\* alternating win, loss, ... give 1 and 1.
C14_Streaks ==
    pc = "done" =>
        /\ result.longest_win_streak = LongestRun("win")
        /\ result.longest_loss_streak = LongestRun("loss")
        /\ (\A i \in 1..Len(bets) : bets[i].outcome # "win") => result.longest_win_streak = 0
        /\ (\A i \in 1..Len(bets) : bets[i].outcome # "loss") => result.longest_loss_streak = 0
        /\ Alternating10 => (result.longest_win_streak = 1 /\ result.longest_loss_streak = 1)

\* C14 witness: the ten alternating wagers have been calculated
C14_Witness ==
    /\ pc = "done"
    /\ Alternating10
    /\ result.total_bets = 10 /\ result.wins = 5 /\ result.losses = 5

\* The wagers dated d, and the summed realized P&L of the wagers dated on or
\* before d
BetsOn(d) == SelectSeq(bets, LAMBDA b : b.date = d)
PnlThrough(d) == RSum(PnlsOf(SelectSeq(bets, LAMBDA b : b.date <= d)))

\* The equity curve has one entry per distinct wager date, in ascending date
\* order, with that date's counts and summed realized P&L
EquityCurveByDate ==
    LET daily == result.daily_results
    IN  /\ Len(daily) = Cardinality({bets[i].date : i \in 1..Len(bets)})
        /\ {daily[k].date : k \in 1..Len(daily)} = {bets[i].date : i \in 1..Len(bets)}
        /\ \A k, l \in 1..Len(daily) : k < l => daily[k].date < daily[l].date
        /\ \A k \in 1..Len(daily) :
              LET on == BetsOn(daily[k].date)
              IN  /\ daily[k].bets = Len(on)
                  /\ daily[k].wins = Len(SelectSeq(on, LAMBDA b : b.outcome = "win"))
                  /\ daily[k].losses = Len(SelectSeq(on, LAMBDA b : b.outcome = "loss"))
                  /\ daily[k].daily_pnl = RSum(PnlsOf(on))
        /\ RSum([k \in 1..Len(daily) |-> RInt(daily[k].bets)]) = RInt(result.total_bets)
        /\ Len(daily) > 0 => daily[Len(daily)].bankroll = result.ending_bankroll

C16_EmptyResult ==
    (pc = "done" /\ bets = <<>>) =>
        /\ result.bets = <<>>
        /\ result.total_bets = 0 /\ result.wins = 0 /\ result.losses = 0
        /\ result.total_staked = RZero /\ result.total_profit = RZero
        /\ result.win_rate = RZero /\ result.roi = RZero
        /\ result.max_drawdown = RZero /\ result.sharpe_sign = 0
        /\ result.profit_factor = RZero /\ result.avg_bet_size = RZero
        /\ result.longest_win_streak = 0 /\ result.longest_loss_streak = 0
        /\ result.daily_results = <<>>
        /\ result.starting_bankroll = call.starting_bankroll
        /\ result.ending_bankroll = call.starting_bankroll

\* Why a finished simulation has no wagers
NoPredictions == historical_data = <<>>
OverConstrained == historical_data # <<>> /\ filtered_predictions = <<>>
GroupsTooSmall ==
    /\ filtered_predictions # <<>>
    /\ \A d \in 1..Len(group_by_date(filtered_predictions)) :
          \A e \in 1..Len(call.entry_sizes) :
              Len(group_by_date(filtered_predictions)[d].preds) < call.entry_sizes[e]
NoAffordableStake ==
    /\ filtered_predictions # <<>>
    /\ \E d \in 1..Len(group_by_date(filtered_predictions)) :
          \E e \in 1..Len(call.entry_sizes) :
              Len(group_by_date(filtered_predictions)[d].preds) >= call.entry_sizes[e]

\* C16 witness: a finished simulation over groups large enough for the
\* requested entry size in which no stake was affordable
C16_Witness ==
    /\ pc = "done" /\ bets = <<>>
    /\ NoAffordableStake
    /\ result.total_bets = 0

\* The wagers that contain the prop category c
Containing(c) == SelectSeq(bets, LAMBDA b : c \in Range(b.prop_types))

\* C17: in the prop-category breakdown the appearances, wins, losses and
\* total_profit of a category are the number, the number won, the number lost
\* and the summed realized P&L of the wagers that contain it: a wager
\* contributes exactly once to each of its categories.
C17_PropTypeOncePerWager ==
    analysis.method = "analyze_by_prop_type" =>
        /\ {analysis.value[k].prop_type : k \in 1..Len(analysis.value)}
               = UNION {Range(bets[i].prop_types) : i \in 1..Len(bets)}
        /\ \A k \in 1..Len(analysis.value) :
              LET e == analysis.value[k]
                  with == Containing(e.prop_type)
              IN  /\ e.appearances = Len(with)
                  /\ e.wins = Len(SelectSeq(with, LAMBDA b : b.outcome = "win"))
                  /\ e.losses = Len(SelectSeq(with, LAMBDA b : b.outcome = "loss"))
                  /\ e.total_profit = RSum(PnlsOf(with))

\* Wager i falls into band k of the list: k is the first band [low, high)
\* with low <= confidence_avg < high
InBand(conf, band) == RLe(RInt(band[1]), conf) /\ RLt(conf, RInt(band[2]))
FirstBand(i, k, bands) ==
    /\ InBand(bets[i].confidence_avg, bands[k])
    /\ \A j \in 1..(k - 1) : ~InBand(bets[i].confidence_avg, bands[j])

\* C18: in the confidence-band breakdown every wager is counted in exactly
\* one band, the first band of the configured list that contains its
\* confidence_avg; the bands' total_bets sum to the number of wagers.
C18_OneBandPerWager ==
    analysis.method = "analyze_by_confidence_level" =>
        LET bands == analysis.args
            entries == analysis.value
        IN  /\ \A i \in 1..Len(bets) : \E k \in 1..Len(bands) : FirstBand(i, k, bands)
            /\ \A m, n \in 1..Len(entries) :
                  m # n => entries[m].confidence_range # entries[n].confidence_range
            /\ \A m \in 1..Len(entries) :
                  entries[m].total_bets =
                      Cardinality({i \in 1..Len(bets) :
                          \E k \in 1..Len(bands) :
                              FirstBand(i, k, bands) /\ bands[k] = entries[m].confidence_range})
            /\ RSum([m \in 1..Len(entries) |-> RInt(entries[m].total_bets)]) = RInt(Len(bets))

\* The wagers of entry size >= 2, and their sets of prop categories
Parlays == {i \in 1..Len(bets) : bets[i].entry_size >= 2}
CategorySet(i) == Range(bets[i].prop_types)

\* C19: in prop-combination mining two wagers of entry size >= 2 are counted
\* under the same combination if and only if they have the same set of prop
\* categories, whatever the order and the multiplicity: with a minimum of one
\* appearance, every such set has exactly one combination, whose appearances
\* are the wagers with that set.
C19_CombinationIsCategorySet ==
    (analysis.method = "find_best_prop_combinations" /\ analysis.args = 1) =>
        LET entries == analysis.value
        IN  \A i \in Parlays :
                /\ Cardinality({m \in 1..Len(entries) :
                        Range(entries[m].prop_combination) = CategorySet(i)}) = 1
                /\ \A m \in 1..Len(entries) :
                      Range(entries[m].prop_combination) = CategorySet(i)
                          => entries[m].appearances =
                                 Cardinality({j \in Parlays : CategorySet(j) = CategorySet(i)})

\* C20: calculate_optimal_entry_mix allocates exactly to the entry sizes whose
\* ROI in the entry-size breakdown is > 0, each in proportion to its ROI (to
\* the tenth of a percent the result is reported in), and the allocations sum
\* to 100 whenever there is one (no allocation at all when no size has a
\* positive ROI).
C20_OptimalMixSumsTo100 ==
    analysis.method = "calculate_optimal_entry_mix" =>
        LET mix == analysis.value
            breakdown == analyze_by_entry_size(bets)
            positive == SelectSeq(breakdown, LAMBDA data : RGt(data.roi, RZero))
        IN  /\ [k \in 1..Len(mix) |-> mix[k].entry_size]
                   = [k \in 1..Len(positive) |-> positive[k].entry_size]
            /\ \A k \in 1..Len(mix) :
                  LET total == RSum([l \in 1..Len(positive) |-> positive[l].roi])
                      share == RMul(RDiv(positive[k].roi, total), RInt(100))
                  IN  /\ RLe(RSub(mix[k].allocation, share), Rat(1, 20))
                      /\ RLe(RSub(share, mix[k].allocation), Rat(1, 20))
            /\ Len(positive) > 0 =>
                  RSum([k \in 1..Len(mix) |-> mix[k].allocation]) = RInt(100)
            /\ Len(positive) = 0 => mix = <<>>

\* A step that stays within one simulation run (a simulate_* call starts a new
\* run with new wagers)
SameRun == ~(pc \in {"idle", "done"} /\ pc' = "generate")

\* The step in which _evaluate_bets resolves the wagers
EvaluationStep == pc = "generate" /\ pc' = "evaluated"

\* C21: within a run a wager is created unresolved with realized P&L 0; its
\* outcome and realized P&L are set once, from unresolved to win or loss, by
\* the evaluation; no later step (the performance calculation, any analyzer
\* method, any number of times in any order) changes the wager, and its props
\* and stake never change after construction.
C21_WagerLifecycle ==
    [][SameRun =>
        /\ Len(bets') >= Len(bets)
        /\ \A i \in (Len(bets) + 1)..Len(bets') :
              bets'[i].outcome = None /\ bets'[i].actual_pnl = RZero
        /\ \A i \in 1..Len(bets) :
              /\ bets'[i].props = bets[i].props
              /\ bets'[i].stake = bets[i].stake
              /\ bets[i].outcome = None => bets[i].actual_pnl = RZero
              /\ bets[i].outcome # None => bets'[i] = bets[i]
              /\ bets'[i] # bets[i] =>
                    /\ EvaluationStep
                    /\ bets'[i].outcome \in {"win", "loss"}
                    /\ bets'[i] = [bets[i] EXCEPT !.outcome = bets'[i].outcome,
                                                   !.actual_pnl = bets'[i].actual_pnl]
        /\ EvaluationStep => \A i \in 1..Len(bets') : bets'[i].outcome \in {"win", "loss"}
        /\ ~EvaluationStep => \A i \in 1..Len(bets) : bets'[i].outcome = bets[i].outcome
        /\ pc \in {"evaluated", "done"} => bets' = bets
        /\ pc' = "done" => result'.bets = bets']_vars

\* C21 witness: a wager that won and a wager that lost, of a run over two
\* dates, still as evaluated after the risk metrics have been asked for
C21_Witness ==
    /\ pc = "done"
    /\ analysis.method = "calculate_risk_metrics"
    /\ \E i \in 1..Len(bets) : bets[i].outcome = "win"
    /\ \E i \in 1..Len(bets) : bets[i].outcome = "loss"
    /\ \E i, j \in 1..Len(bets) : bets[i].date # bets[j].date
    /\ result.bets = bets

\* The flat policy with a base stake that is > 0 and <= the starting bankroll
FlatAffordable ==
    /\ call.bankroll_strategy = "flat"
    /\ RGt(call.bet_size, RZero)
    /\ RLe(call.bet_size, call.starting_bankroll)

\* C22: under the flat policy with an affordable base stake, the run of a date
\* group of n predictions for a requested entry size yields exactly
\* floor(n / entry_size) wagers, each of exactly entry_size props, all of that
\* date; a group smaller than the entry size yields none.
C22_FlatRunYield ==
    [][(pc = "generate" /\ RunsLeft /\ FlatAffordable) =>
        LET group == group_by_date(filtered_predictions)[run[1]]
            n == Len(group.preds)
            made == Len(bets') - Len(bets)
        IN  /\ SubSeq(bets', 1, Len(bets)) = bets
            /\ made = n \div RunSize
            /\ n < RunSize => made = 0
            /\ \A k \in 1..made :
                  LET b == bets'[Len(bets) + k]
                  IN  /\ b.entry_size = RunSize
                      /\ Len(b.props) = RunSize
                      /\ Cardinality(Range(b.props)) = RunSize
                      /\ b.date = group.date
                      /\ \A j \in 1..Len(b.props) :
                            /\ b.props[j] \in Range(group.preds)
                            /\ b.props[j].game_date = group.date]_vars

\* C22 witness: a finished flat generation for entry size 2 over a date of
\* five predictions, which gave two wagers and left one prediction over, and a
\* date of one prediction, which gave none
C22_Witness ==
    /\ pc = "generate" /\ ~RunsLeft
    /\ FlatAffordable
    /\ call.entry_sizes = <<2>>
    /\ Len(group_by_date(filtered_predictions)) = 2
    /\ Len(group_by_date(filtered_predictions)[1].preds) = 5
    /\ Len(group_by_date(filtered_predictions)[2].preds) = 1
    /\ Len(bets) = 2

\* What a call returns when it is the only call ever made on the simulator:
\* the stages applied one after the other to the collection and the lookup
FilterAlone(c) ==
    CASE c.strategy_name = "confidence_based" ->
             filter_by_confidence(c.confidence_threshold, c.sport)
      [] c.strategy_name = "value_based" -> filter_by_ev(c.ev_threshold, c.sport)
      [] c.strategy_name = "prop_specific" ->
             filter_by_props(c.prop_types, c.confidence_threshold, c.sport)
      [] c.strategy_name = "composite" ->
             filter_composite(c.confidence_threshold, c.ev_threshold, c.prop_types, c.sport)

ResultAlone(c) ==
    calculate_performance(
        evaluate_bets(generate_bets(FilterAlone(c), c.entry_sizes, c.starting_bankroll,
                                    c.bet_size, c.bankroll_strategy),
                      actual_outcomes),
        c.starting_bankroll)

\* C23: whatever calls were made before and however the runs of two calls are
\* interleaved, a call returns the BettingResult it returns when run alone,
\* and no step changes the prediction collection or the outcome lookup.
C23_Independent ==
    /\ [](/\ pc = "done" => result = ResultAlone(call)
          /\ suspended.pc = "done" => suspended.result = ResultAlone(suspended.call))
    /\ [][/\ historical_data' = historical_data
          /\ actual_outcomes' = actual_outcomes]_vars

\* C23 witness: a percentage call has returned a result with wagers while a
\* kelly call on the same simulator is between two of its runs, with a wager
\* made and its bankroll reduced
C23_Witness ==
    /\ pc = "done"
    /\ call.bankroll_strategy = "percentage"
    /\ result.total_bets > 1
    /\ suspended.pc = "generate"
    /\ suspended.call.bankroll_strategy = "kelly"
    /\ suspended.bets # <<>>
    /\ suspended.run[1] <= Len(group_by_date(suspended.filtered_predictions))
    /\ RLt(suspended.current_bankroll, suspended.call.starting_bankroll)

\* The pair (confidence, expected value) of p is above, or equal to, that of q
PairAbove(p, q) ==
    \/ p.confidence > q.confidence
    \/ (p.confidence = q.confidence /\ p.expected_value > q.expected_value)
PairEqual(p, q) == p.confidence = q.confidence /\ p.expected_value = q.expected_value

\* The position of a prediction in a sequence without repetitions
PositionIn(p, input) == CHOOSE i \in 1..Len(input) : input[i] = p

\* The rank of p among the candidates: one more than the number of candidates
\* with a pair above p's, or with p's pair and met before p in the input
RankIn(p, input) ==
    1 + Cardinality({q \in Range(input) :
            \/ PairAbove(q, p)
            \/ (PairEqual(q, p) /\ PositionIn(q, input) < PositionIn(p, input))})

\* C24: in a run the candidates are ranked in descending order of
\* (confidence, expected value), equal pairs in input order, and the k-th
\* wager of the run holds the candidates ranked (k-1)*entry_size+1 to
\* k*entry_size; every prop of an earlier wager of the run has a pair >= that
\* of every prop of a later one.
C24_RankedPartition ==
    [][(pc = "generate" /\ RunsLeft) =>
        LET input == group_by_date(filtered_predictions)[run[1]].preds
            made == Len(bets') - Len(bets)
            wager(k) == bets'[Len(bets) + k]
        IN  /\ \A k \in 1..made :
                  \A j \in 1..RunSize :
                      /\ wager(k).props[j] \in Range(input)
                      /\ RankIn(wager(k).props[j], input) = (k - 1) * RunSize + j
            /\ \A k, l \in 1..made :
                  k < l =>
                      \A i, j \in 1..RunSize :
                          \/ PairAbove(wager(k).props[i], wager(l).props[j])
                          \/ PairEqual(wager(k).props[i], wager(l).props[j])]_vars

\* C24 witness: a finished generation of two two-prop wagers from four
\* candidates of one date, among them two of equal confidence handed over
\* lower expected value first and two of equal pairs
C24_Witness ==
    /\ pc = "generate" /\ ~RunsLeft
    /\ call.entry_sizes = <<2>>
    /\ Len(filtered_predictions) = 4
    /\ Len(bets) = 2
    /\ \E i, j \in 1..4 :
          /\ i < j
          /\ filtered_predictions[i].confidence = filtered_predictions[j].confidence
          /\ filtered_predictions[i].expected_value < filtered_predictions[j].expected_value
    /\ \E i, j \in 1..4 :
          i < j /\ PairEqual(filtered_predictions[i], filtered_predictions[j])
    /\ bets[1].props \o bets[2].props # filtered_predictions

\* How often the category c occurs in a sequence of categories
Occurrences(c, cats) == Cardinality({j \in 1..Len(cats) : cats[j] = c})

\* The wagers of entry size >= 2 whose categories are those of the
\* combination, each as often as the combination has it, and the win rate of
\* a group of wagers as it is reported
WagersOf(combination) ==
    {i \in Parlays :
        \A c \in Range(combination) \cup CategorySet(i) :
            Occurrences(c, combination) = Occurrences(c, bets[i].prop_types)}
GroupWinRate(group) ==
    Round2(RMul(Rat(Cardinality({i \in group : bets[i].outcome = "win"}),
                    Cardinality(group)), RInt(100)))

\* C25: find_best_prop_combinations returns at most 10 combinations, each
\* with at least min_appearances appearances, in non-increasing win-rate
\* order; a qualifying combination that is left out has a win rate no higher
\* than any returned one; wagers of entry size < 2 are counted in none.
C25_TopTenByWinRate ==
    analysis.method = "find_best_prop_combinations" =>
        LET entries == analysis.value
            returned == {WagersOf(entries[m].prop_combination) : m \in 1..Len(entries)}
            qualifying == {group \in {WagersOf(bets[i].prop_types) : i \in Parlays} :
                              Cardinality(group) >= analysis.args}
        IN  /\ Len(entries) <= 10
            /\ Len(entries) = IF Cardinality(qualifying) < 10
                              THEN Cardinality(qualifying) ELSE 10
            /\ Cardinality(returned) = Len(entries)
            /\ returned \subseteq qualifying
            /\ \A m \in 1..Len(entries) :
                  LET group == WagersOf(entries[m].prop_combination)
                  IN  /\ entries[m].appearances >= analysis.args
                      /\ entries[m].appearances = Cardinality(group)
                      /\ entries[m].win_rate = GroupWinRate(group)
                      /\ Len(entries[m].prop_combination) >= 2
            /\ \A m, n \in 1..Len(entries) :
                  m < n => RGe(entries[m].win_rate, entries[n].win_rate)
            /\ \A group \in qualifying \ returned :
                  \A m \in 1..Len(entries) :
                      RLe(GroupWinRate(group), entries[m].win_rate)

\* C25 witness: eleven combinations qualified, with win rates of 100, 50 and
\* 0, next to a single-prop wager; ten were returned
C25_Witness ==
    /\ analysis.method = "find_best_prop_combinations"
    /\ analysis.args = 1
    /\ Cardinality({CategorySet(i) : i \in Parlays}) = 11
    /\ \E i \in 1..Len(bets) : bets[i].entry_size = 1
    /\ Len(analysis.value) = 10
    /\ {analysis.value[m].win_rate : m \in 1..10} = {RInt(100), RInt(50), RZero}

\* C26: under the percentage and kelly policies the bankroll tracked by the
\* generator never becomes negative: after any number of runs the stakes of
\* the wagers generated so far sum to at most the starting bankroll.
C26_BankrollNeverNegative ==
    (pc # "idle" /\ call.bankroll_strategy \in {"percentage", "kelly"}) =>
        /\ RGe(current_bankroll, RZero)
        /\ RLe(StakedBefore(Len(bets)), call.starting_bankroll)

\* Every wager made by a run has 0 < stake <= the bankroll tracked when the
\* run began <= the starting bankroll
RunStakesWithinBankroll ==
    [][(pc = "generate" /\ RunsLeft) =>
        \A i \in (Len(bets) + 1)..Len(bets') :
            /\ RGt(bets'[i].stake, RZero)
            /\ RLe(bets'[i].stake, current_bankroll)
            /\ RLe(current_bankroll, call.starting_bankroll)]_vars

\* Neither the calculator nor the risk metrics divide by a stake of zero
NoDivisionByZeroStake ==
    pc = "done" =>
        /\ result # ZeroDivisionError
        /\ calculate_risk_metrics(result) # ZeroDivisionError
        /\ \A i \in 1..Len(bets) : bets[i].stake # RZero

\* C27 as stated: ... hence the total_staked of a simulation run is 0 only
\* when there are no wagers, and the per-wager return never divides by zero.
C27_StakedZeroOnlyWithoutWagers ==
    /\ RunStakesWithinBankroll
    /\ [](NoDivisionByZeroStake)
    /\ []((pc = "done" /\ result # ZeroDivisionError) =>
             (result.total_staked = RZero => result.total_bets = 0))

\* C27 amended: ... hence the sum of the stakes, which is what total_staked
\* is before it is rounded for the result, is 0 only when there are no wagers.
C27_StakeSumZeroOnlyWithoutWagers ==
    /\ RunStakesWithinBankroll
    /\ [](NoDivisionByZeroStake)
    /\ []((pc = "done" /\ result # ZeroDivisionError) =>
             /\ RSum(StakesOf(bets)) = RZero => result.total_bets = 0
             /\ result.total_staked = Round2(RSum(StakesOf(bets))))

\* C27 witness: a finished run of wagers at a flat stake below half a cent,
\* reported with a total_staked of 0
C27_Witness ==
    /\ pc = "done"
    /\ result.total_bets > 0
    /\ RGt(RSum(StakesOf(bets)), RZero)
    /\ result.total_staked = RZero

\* C28: for a positive starting bankroll, under every bankroll policy, the
\* simulated bankroll never goes below zero: the reported ending_bankroll and
\* every bankroll of the equity curve are >= 0 and the reported max drawdown
\* is at most 100 percent.
C28_BankrollNotBelowZero ==
    (pc = "done" /\ result # ZeroDivisionError /\ RGt(call.starting_bankroll, RZero)) =>
        /\ RGe(result.ending_bankroll, RZero)
        /\ \A k \in 1..Len(result.daily_results) :
              RGe(result.daily_results[k].bankroll, RZero)
        /\ RLe(result.max_drawdown, RInt(100))

\* The sum of a sequence of integers
RECURSIVE SumOf(_)
SumOf(ns) == IF ns = <<>> THEN 0 ELSE Head(ns) + SumOf(Tail(ns))

\* The groups of a breakdown partition the wagers by key: one group per key
\* that occurs, each counting the wagers with its key, the wins and the losses
\* among them, and nothing else
Partitions(groups, keyOfGroup(_), keyOfWager(_)) ==
    /\ {keyOfGroup(groups[g]) : g \in 1..Len(groups)} = {keyOfWager(bets[i]) : i \in 1..Len(bets)}
    /\ \A g, h \in 1..Len(groups) : g # h => keyOfGroup(groups[g]) # keyOfGroup(groups[h])
    /\ \A g \in 1..Len(groups) :
          LET members == {i \in 1..Len(bets) : keyOfWager(bets[i]) = keyOfGroup(groups[g])}
          IN  /\ groups[g].total_bets = Cardinality(members)
              /\ groups[g].wins = Cardinality({i \in members : bets[i].outcome = "win"})
              /\ groups[g].losses = Cardinality({i \in members : bets[i].outcome = "loss"})
              /\ groups[g].wins + groups[g].losses = groups[g].total_bets
    /\ SumOf([g \in 1..Len(groups) |-> groups[g].total_bets]) = result.total_bets
    /\ SumOf([g \in 1..Len(groups) |-> groups[g].wins]) = result.wins
    /\ SumOf([g \in 1..Len(groups) |-> groups[g].losses]) = result.losses

\* C29: in the BettingResult of a simulation no wager is unresolved and
\* wins + losses = total_bets; the entry-size breakdown and the sport
\* breakdown each partition the wagers: their groups' total_bets, wins and
\* losses sum to those of the result, and wins + losses = total_bets in each
\* group.
C29_BreakdownsPartition ==
    (pc = "done" /\ result # ZeroDivisionError) =>
        /\ \A i \in 1..Len(result.bets) : result.bets[i].outcome \in {"win", "loss"}
        /\ result.total_bets = Len(result.bets)
        /\ result.wins + result.losses = result.total_bets
        /\ result.wins = Cardinality({i \in 1..Len(bets) : bets[i].outcome = "win"})
        /\ result.losses = Cardinality({i \in 1..Len(bets) : bets[i].outcome = "loss"})
        /\ analysis.method = "analyze_by_entry_size" =>
               Partitions(analysis.value, LAMBDA g : g.entry_size, LAMBDA b : b.entry_size)
        /\ analysis.method = "analyze_by_sport" =>
               Partitions(analysis.value, LAMBDA g : g.sport, LAMBDA b : b.sport)
        /\ analysis.method = "generate_summary_report" =>
               /\ Partitions(analysis.value.by_entry_size,
                             LAMBDA g : g.entry_size, LAMBDA b : b.entry_size)
               /\ Partitions(analysis.value.by_sport, LAMBDA g : g.sport, LAMBDA b : b.sport)

\* C29 witness: the sport breakdown of a simulation whose wagers are of two
\* entry sizes and two sports, some won and some lost
C29_Witness ==
    /\ pc = "done"
    /\ analysis.method = "analyze_by_sport"
    /\ Len(analysis.value) = 2
    /\ Cardinality({bets[i].entry_size : i \in 1..Len(bets)}) = 2
    /\ result.wins > 0 /\ result.losses > 0
    /\ \E g \in 1..2 : analysis.value[g].wins > 0 /\ analysis.value[g].losses > 0

\* A wager sequence without what the evaluation writes
Unresolved(bs) == [i \in 1..Len(bs) |-> [bs[i] EXCEPT !.outcome = None, !.actual_pnl = RZero]]

\* C30: two runs of the same call over the same predictions against different
\* outcome lookups generate the same wagers (props, stakes, entry sizes,
\* dates, order), hence the same total_bets and total_staked; they differ in
\* the outcomes and the realized P&L only.
C30_GenerationIgnoresOutcomes ==
    (pc \in {"evaluated", "done"} /\ suspended.pc = "done" /\ suspended.call = call) =>
        /\ Unresolved(bets) = Unresolved(suspended.bets)
        /\ pc = "done" =>
              /\ result.total_bets = suspended.result.total_bets
              /\ result.total_staked = suspended.result.total_staked

\* C30 witness: the same kelly call has finished on two simulators over the
\* same predictions; one of its two or more wagers won on one and lost on the
\* other
C30_Witness ==
    /\ pc = "done" /\ suspended.pc = "done"
    /\ suspended.call = call
    /\ call.bankroll_strategy = "kelly"
    /\ Len(bets) >= 2
    /\ \E i \in 1..Len(bets) :
          bets[i].outcome = "win" /\ suspended.bets[i].outcome = "loss"
    /\ result.total_profit # suspended.result.total_profit

====
